---- MODULE Spec2Model ----
(***************************************************************************)
(* PasteBro: the clipboard capture-and-persistence pipeline.               *)
(*                                                                         *)
(* The History Store (database.js), the History Coordinator                *)
(* (historyManager.js), the Clipboard Poller (clipboardMonitor.js) and the *)
(* IPC handlers of main.js that drive them, as one state machine.  Node    *)
(* runs every handler to its next await on a single thread, so a handler   *)
(* without a macrotask await is one atomic action.                         *)
(***************************************************************************)
EXTENDS Integers, Sequences, FiniteSets, TLC

(***************************************************************************)
(* Bounds of the model.                                                    *)
(***************************************************************************)
MaxIds == 2          \* ids (uuids) ever handed out in one behaviour
MaxTicks == 2        \* poll ticks in one behaviour
MaxDays == 1         \* whole days the clock is advanced by
MaxLimit == 2        \* largest maxHistoryItems preference tried
MaxRetention == 1    \* largest retentionDays preference tried
MaxRows == 6         \* rows of a pre-existing store (SpecEvict)
MaxIdLen == 2        \* characters of an id handed to the Blob Store
MaxFiles == 2        \* files the Blob Store directories hold
MaxLegacy == 1       \* image rows with inline data at startup
MaxList == 2         \* entries of a file list
MaxCopies == 2       \* copy handlers whose resume timers are pending

(***************************************************************************)
(* Program constants.                                                      *)
(***************************************************************************)
pollInterval == 50
MsPerDay == 24 * 60 * 60 * 1000
DefaultQueryLimit == 50
BulkQueryLimit == 10000
MigrationBatch == 10
SidebarItemLimit == 100

NULL == "null"       \* JavaScript null / undefined, where a string stands
NoId == 0            \* a missing id (falsy)
NoStamp == 0         \* a missing timestamp (falsy)
Threw == 0 - 1       \* addItem rejected with an exception
NoImage == <<>>      \* no image bytes (null)
NoPath == [dir |-> "", name |-> <<>>, ext |-> ""]    \* no file path (null)
NoList == <<>>       \* no array (null)
NoSize == 0 - 1      \* no number (null)

Min(a, b) == IF a < b THEN a ELSE b

(***************************************************************************)
(* Content Hasher.  SHA-256 is modelled as an injective function of its    *)
(* input string.                                                           *)
(***************************************************************************)
Sha256(s) == "sha256:" \o s

\* the first 1000 characters of an image's base64 text: an image is the
\* pair of that head and the rest of its bytes
base64Head(image) == image[1]

\* JSON.stringify of an array of strings
RECURSIVE JSONelements(_)
JSONelements(list) ==
    IF Len(list) = 0 THEN ""
    ELSE IF Len(list) = 1 THEN "\"" \o list[1] \o "\""
    ELSE "\"" \o list[1] \o "\"," \o JSONelements(Tail(list))
JSONstringify(list) == "[" \o JSONelements(list) \o "]"

\* the arrays of strings that are parsed back: the fileTypes of an item
JSONstrings == {"image", "file"}
JSONarrays == UNION {[1..n -> JSONstrings] : n \in 1..MaxList}

\* JSON.parse of the text of an array of strings
JSONparse(text) == CHOOSE list \in JSONarrays : JSONstringify(list) = text

\* an absolute file path, kept as its name and its extension
FileA == [name |-> "a", ext |-> ".png"]
FileB == [name |-> "b", ext |-> ".txt"]
FileC == [name |-> "c", ext |-> ".txt"]
FileD == [name |-> "d", ext |-> ".PNG"]
FileE == [name |-> "e", ext |-> ".jpg"]
NoFile == [name |-> "", ext |-> ""]      \* no file path (null)
PathString(path) == "/" \o path.name \o path.ext
PathStrings(paths) == [i \in DOMAIN paths |-> PathString(paths[i])]

\* the user's disk: the bytes of the files that exist.  /d.PNG and /e.jpg
\* were moved away after their paths were copied
UserFiles ==
    (FileA :> <<"A", "1">>) @@ (FileB :> <<"b">>) @@ (FileC :> <<"c", "c">>)

\* ClipboardMonitor.getFileSize
getFileSize(filePath) ==
    IF filePath \in DOMAIN UserFiles THEN Len(UserFiles[filePath]) ELSE 0

\* ClipboardMonitor.loadImageFromFile
loadImageFromFile(filePath) ==
    IF filePath \in DOMAIN UserFiles THEN UserFiles[filePath] ELSE NoImage

\* the content object captureClipboardContent starts from (rtf, which no
\* clipboard here carries, is left out)
NoContent ==
    [isNull |-> FALSE, image |-> NoImage, text |-> "", html |-> "",
     files |-> NoList, fileUrl |-> NoFile]

\* ClipboardMonitor.generateContentHash
generateContentHash(content) ==
    Sha256(IF content.fileUrl # NoFile
           THEN PathString(content.fileUrl) \o "|"
                    \o ToString(getFileSize(content.fileUrl))
           ELSE IF content.image # NoImage THEN base64Head(content.image)
           ELSE IF content.html # "" THEN content.html
           ELSE IF content.text # "" THEN content.text
           ELSE "")

\* the constructor's parameter defaults (imageThumbnail, sourceApplication
\* and thumbnails, which no operation here reads, are left out)
ItemData ==
    [id |-> NoId, type |-> NULL, timestamp |-> NoStamp,
     isPinned |-> FALSE, isDeleted |-> FALSE, contentHash |-> NULL,
     plainText |-> NULL, richText |-> NULL,
     imageData |-> NoImage, imagePath |-> NoPath, thumbnailPath |-> NoPath,
     filePaths |-> NoList, colorValue |-> NULL,
     fileSize |-> NoSize, fileCount |-> NoSize, fileTypes |-> NoList,
     isAllImages |-> FALSE]

\* ClipboardItem._generateContentHash on the object this
ItemGenerateContentHash(this) ==
    Sha256(CASE this.type \in {"text", "richText"} ->
                    IF this.plainText = NULL THEN "" ELSE this.plainText
             [] this.type = "image" ->
                    IF this.imageData = NoImage THEN ""
                    ELSE base64Head(this.imageData)
             [] this.type \in {"file", "multi-file"} ->
                    IF this.filePaths = NoList THEN ""
                    ELSE JSONstringify(PathStrings(this.filePaths))
             [] this.type = "color" ->
                    IF this.colorValue = NULL THEN "" ELSE this.colorValue
             [] OTHER -> "")

\* ClipboardItem.generateHash(content, type) for a text, a list of paths, a
\* color and an image buffer
generateHash(content, type) ==
    Sha256(IF type = "image" THEN base64Head(content)
           ELSE IF type = "file" THEN JSONstringify(PathStrings(content))
           ELSE content)

(***************************************************************************)
(* OS clipboard contents the environment may place.                        *)
(***************************************************************************)
\* writer says who placed the content: another application ("os") or the
\* copy-to-clipboard handler ("app")
EmptyClipboard ==
    [formats |-> {}, text |-> "", html |-> "", image |-> NoImage,
     files |-> NoList, writer |-> "os"]
PlainHello ==
    [EmptyClipboard EXCEPT !.formats = {"text/plain"}, !.text = "Hello"]
PlainWorld ==
    [EmptyClipboard EXCEPT !.formats = {"text/plain"}, !.text = "World"]
Clipboards == {EmptyClipboard, PlainHello, PlainWorld}

\* Hello copied from a page that also offers it as markup
RichHello ==
    [EmptyClipboard EXCEPT !.formats = {"text/plain", "text/html"},
                           !.text = "Hello", !.html = "<b>Hello</b>"]

\* two screenshots, different in their first bytes
ImageA == [EmptyClipboard EXCEPT !.formats = {"image/png"}, !.image = <<"A", "1">>]
ImageB == [EmptyClipboard EXCEPT !.formats = {"image/png"}, !.image = <<"B", "1">>]
ImageClipboards == {ImageA, ImageB}

\* files copied in the Finder
FileList(paths) ==
    [EmptyClipboard EXCEPT !.formats = {"text/uri-list"},
                           !.files = paths]
FileLists == {<<FileB>>, <<FileB, FileC>>, <<FileC, FileB>>, <<FileB, FileA>>,
              <<FileA, FileB>>, <<FileE, FileB>>}
FileClipboards == {FileList(paths) : paths \in FileLists}

\* ClipboardMonitor.captureClipboardContent on macOS
captureClipboardContent(cb) ==
    LET hasFiles == "text/uri-list" \in cb.formats /\ Len(cb.files) > 0
        hasImage == "image/png" \in cb.formats /\ cb.image # NoImage
    IN IF hasFiles
       THEN [NoContent EXCEPT !.files = cb.files, !.fileUrl = cb.files[1]]
       ELSE [NoContent EXCEPT
                !.isNull = (cb.formats = {}),
                !.image = IF hasImage THEN cb.image ELSE NoImage,
                !.text = IF ~hasImage /\ "text/plain" \in cb.formats
                         THEN cb.text ELSE "",
                !.html = IF ~hasImage /\ "text/html" \in cb.formats
                         THEN cb.html ELSE ""]

(***************************************************************************)
(* Item Model.                                                             *)
(***************************************************************************)
\* the object under construction when the constructor computes the hash:
\* id, type, timestamp and the flags are assigned, the payload fields are
\* assigned after it and still read undefined
Unassigned(data) == [ItemData EXCEPT !.type = data.type]

\* ClipboardItem constructor: defaults for id, timestamp and contentHash
ClipboardItem(data, uuid, dateNow) ==
    [data EXCEPT
        !.id = IF data.id = NoId THEN uuid ELSE data.id,
        !.timestamp = IF data.timestamp = NoStamp THEN dateNow ELSE data.timestamp,
        !.contentHash = IF data.contentHash = NULL
                        THEN ItemGenerateContentHash(Unassigned(data))
                        ELSE data.contentHash]

\* a serialisation that leaves the thumbnail path out
toDatabase_NoThumbnail(item) ==
    [item EXCEPT
        !.fileTypes = IF item.fileTypes = NoList THEN NULL
                      ELSE JSONstringify(item.fileTypes),
        !.isAllImages = IF item.isAllImages THEN 1 ELSE 0,
        !.thumbnailPath = NoPath]

\* ClipboardItem.toDatabase
toDatabase(item) ==
    [item EXCEPT
        !.fileTypes = IF item.fileTypes = NoList THEN NULL
                      ELSE JSONstringify(item.fileTypes),
        !.isAllImages = IF item.isAllImages THEN 1 ELSE 0]

\* ClipboardItem.fromDatabase
fromDatabase(dbRow, uuid, dateNow) ==
    ClipboardItem([dbRow EXCEPT
                      !.fileTypes = IF dbRow.fileTypes = NULL THEN NoList
                                    ELSE JSONparse(dbRow.fileTypes),
                      !.isAllImages = (dbRow.isAllImages = 1)],
                  uuid, dateNow)

\* ClipboardItem.fromText
fromText(text, richText, uuid, dateNow) ==
    ClipboardItem([ItemData EXCEPT
                      !.type = IF richText # NULL THEN "richText" ELSE "text",
                      !.plainText = text, !.richText = richText,
                      !.contentHash = generateHash(text, "text"),
                      !.fileSize = Len(text)],
                  uuid, dateNow)

\* ClipboardItem.fromImage
fromImage(imageBuffer, uuid, dateNow) ==
    ClipboardItem([ItemData EXCEPT
                      !.type = "image", !.imageData = imageBuffer,
                      !.contentHash = generateHash(imageBuffer, "image"),
                      !.fileSize = Len(imageBuffer)],
                  uuid, dateNow)

\* ClipboardItem.fromFiles
fromFiles(filePaths, uuid, dateNow) ==
    ClipboardItem([ItemData EXCEPT
                      !.type = "file", !.filePaths = filePaths,
                      !.contentHash = generateHash(filePaths, "file")],
                  uuid, dateNow)

\* ClipboardItem.fromColor
fromColor(colorValue, uuid, dateNow) ==
    ClipboardItem([ItemData EXCEPT
                      !.type = "color", !.colorValue = colorValue,
                      !.contentHash = generateHash(colorValue, "color")],
                  uuid, dateNow)

\* ClipboardMonitor.isImageFile
imageExtensions ==
    {".jpg", ".jpeg", ".png", ".gif", ".bmp", ".tiff", ".tif", ".webp", ".svg",
     ".ico"}
toLowerCase(ext) == IF ext = ".PNG" THEN ".png" ELSE ext
isImageFile(filePath) == toLowerCase(filePath.ext) \in imageExtensions

\* ClipboardMonitor.createMultiFileItem
createMultiFileItem(filePaths, contentHash, uuid, dateNow) ==
    LET fileTypes == [i \in DOMAIN filePaths |->
                        IF isImageFile(filePaths[i]) THEN "image" ELSE "file"]
    IN ClipboardItem([ItemData EXCEPT
                         !.type = "multi-file", !.filePaths = filePaths,
                         !.fileCount = Len(filePaths),
                         !.fileTypes = fileTypes,
                         !.isAllImages = \A i \in DOMAIN fileTypes :
                                            fileTypes[i] = "image",
                         !.contentHash = contentHash],
                     uuid, dateNow)

\* ClipboardMonitor.createClipboardItem, text branches
createClipboardItem(content, contentHash, uuid, dateNow) ==
    ClipboardItem([ItemData EXCEPT
                      !.type = IF content.html # "" THEN "richText" ELSE "text",
                      !.plainText = content.text,
                      !.richText = IF content.html # "" THEN content.html
                                   ELSE NULL,
                      !.contentHash = contentHash,
                      !.fileSize = Len(content.text)],
                  uuid, dateNow)

(***************************************************************************)
(* History Store: a store value db is a function from the ids present to   *)
(* rows, a row being the columns of clipboard_items.                       *)
(***************************************************************************)
EmptyDb == [i \in {} |-> 0]
AnyFlag == {0, 1}

\* DatabaseManager.insert throws: PRIMARY KEY clash or NOT NULL violation
insertThrows(db, item) ==
    \/ item.id \in DOMAIN db
    \/ item.type = NULL

\* DatabaseManager.insert
insert(db, item) ==
    [i \in DOMAIN db \cup {item.id} |->
        IF i = item.id
        THEN [id |-> item.id, type |-> item.type, timestamp |-> item.timestamp,
              is_pinned |-> IF item.isPinned THEN 1 ELSE 0,
              is_deleted |-> IF item.isDeleted THEN 1 ELSE 0,
              content_hash |-> item.contentHash,
              plain_text |-> item.plainText, rich_text |-> item.richText,
              image_data |-> item.imageData,
              file_paths |-> IF item.filePaths = NoList THEN NULL
                             ELSE JSONstringify(PathStrings(item.filePaths)),
              image_path |-> item.imagePath,
              thumbnail_path |-> item.thumbnailPath]
        ELSE db[i]]

\* the column whitelist without the trash flag
allowedFields_NoDeleted ==
    {"is_pinned", "plain_text", "rich_text", "image_data", "thumbnail_data",
     "file_paths", "color_value"}

\* DatabaseManager.camelToSnake on the keys the callers pass
camelToSnake(key) ==
    CASE key = "isPinned" -> "is_pinned"
      [] key = "isDeleted" -> "is_deleted"
      [] key = "plainText" -> "plain_text"
      [] key = "richText" -> "rich_text"
      [] OTHER -> key

\* DatabaseManager.update: the whitelist of updatable columns
allowedFields ==
    {"is_pinned", "is_deleted", "plain_text", "rich_text",
     "image_data", "thumbnail_data", "file_paths", "color_value"}

\* the columns an update call writes
updateColumns(updates) ==
    {camelToSnake(k) : k \in DOMAIN updates} \cap allowedFields

\* boolean to integer conversion inside update
updateValue(key, value) ==
    IF key \in {"isPinned", "isDeleted"} THEN (IF value THEN 1 ELSE 0) ELSE value

\* an update whose statement has no WHERE id = ? clause
update_NoWhere(db, id, updates) ==
    LET cols == updateColumns(updates)
        keyOf(c) == CHOOSE k \in DOMAIN updates : camelToSnake(k) = c
    IN IF cols = {} \/ id \notin DOMAIN db THEN db
       ELSE [i \in DOMAIN db |->
                [c \in DOMAIN db[i] |->
                    IF c \in cols THEN updateValue(keyOf(c), updates[keyOf(c)])
                    ELSE db[i][c]]]

\* DatabaseManager.update: the store afterwards
update(db, id, updates) ==
    LET cols == updateColumns(updates)
        keyOf(c) == CHOOSE k \in DOMAIN updates : camelToSnake(k) = c
    IN IF cols = {} \/ id \notin DOMAIN db THEN db
       ELSE [db EXCEPT ![id] =
                [c \in DOMAIN db[id] |->
                    IF c \in cols THEN updateValue(keyOf(c), updates[keyOf(c)])
                    ELSE db[id][c]]]

\* DatabaseManager.update: its return value, result.changes > 0
updateChanges(db, id, updates) ==
    updateColumns(updates) # {} /\ id \in DOMAIN db

\* DatabaseManager.delete
delete(db, ids) == [i \in DOMAIN db \ ids |-> db[i]]

\* DatabaseManager.delete: its return value, result.changes
deleteChanges(db, ids) == Cardinality(DOMAIN db \cap ids)

\* the WHERE clause of DatabaseManager.query and count
matching(db, pinnedIn, deletedIn) ==
    {i \in DOMAIN db : db[i].is_pinned \in pinnedIn /\ db[i].is_deleted \in deletedIn}

\* DatabaseManager.count
count(db, pinnedIn, deletedIn) == Cardinality(matching(db, pinnedIn, deletedIn))

\* DatabaseManager.query ORDER BY timestamp ASC LIMIT n, as the sets of ids it
\* may return: rows of equal timestamp come in an order SQLite does not fix
queryAsc(db, pinnedIn, deletedIn, limit) ==
    LET m == matching(db, pinnedIn, deletedIn)
    IN {S \in SUBSET m :
          /\ Cardinality(S) = Min(limit, Cardinality(m))
          /\ \A a \in S : \A b \in m \ S : db[a].timestamp <= db[b].timestamp}

\* DatabaseManager.query ORDER BY timestamp DESC LIMIT n, as the sequences of
\* ids it may return
queryDesc(db, pinnedIn, deletedIn, limit) ==
    LET m == matching(db, pinnedIn, deletedIn)
        k == Min(limit, Cardinality(m))
    IN {s \in [1..k -> m] :
          /\ \A i, j \in 1..k : i < j =>
                s[i] # s[j] /\ db[s[i]].timestamp >= db[s[j]].timestamp
          /\ \A b \in m \ {s[i] : i \in 1..k} :
                \A i \in 1..k : db[s[i]].timestamp >= db[b].timestamp}

\* DatabaseManager.query ORDER BY timestamp DESC LIMIT n, as the sets of ids
\* it may return
queryDescIds(db, pinnedIn, deletedIn, limit) ==
    LET m == matching(db, pinnedIn, deletedIn)
    IN {S \in SUBSET m :
          /\ Cardinality(S) = Min(limit, Cardinality(m))
          /\ \A a \in S : \A b \in m \ S : db[a].timestamp >= db[b].timestamp}

\* a lookup that never finds a row
existsByHash_Never(db, contentHash) == {}

\* a lookup that also finds rows in the trash
existsByHash_AnyRow(db, contentHash) ==
    {i \in DOMAIN db : db[i].content_hash = contentHash}

\* DatabaseManager.existsByHash: the ids its LIMIT 1 query may return
existsByHash(db, contentHash) ==
    {i \in DOMAIN db : db[i].content_hash = contentHash /\ db[i].is_deleted = 0}

(***************************************************************************)
(* History Coordinator.                                                    *)
(***************************************************************************)
\* a count pass that evicts the newest rows first
countPass_Newest(db, maxItems) ==
    LET totalCount == count(db, AnyFlag, {0})
    IN IF totalCount > maxItems
       THEN {delete(db, S) :
                S \in queryDescIds(db, {0}, {0}, totalCount - maxItems)}
       ELSE {db}

\* a count pass whose query does not filter on the pin
countPass_Pinned(db, maxItems) ==
    LET totalCount == count(db, AnyFlag, {0})
    IN IF totalCount > maxItems
       THEN {delete(db, S) :
                S \in queryAsc(db, AnyFlag, {0}, totalCount - maxItems)}
       ELSE {db}

\* enforceStorageLimits, count pass: the stores it may leave
countPass(db, maxItems) ==
    LET totalCount == count(db, AnyFlag, {0})
    IN IF totalCount > maxItems
       THEN {delete(db, S) : S \in queryAsc(db, {0}, {0}, totalCount - maxItems)}
       ELSE {db}

\* a retention pass with the comparison turned round
retentionPass_Newer(db, retentionDays, dateNow) ==
    IF retentionDays > 0
    THEN LET cutoffTimestamp == dateNow - (retentionDays * MsPerDay)
         IN {delete(db, {i \in S : db[i].timestamp > cutoffTimestamp}) :
                S \in queryAsc(db, {0}, {0}, BulkQueryLimit)}
    ELSE {db}

\* enforceStorageLimits, retention pass: the stores it may leave
retentionPass(db, retentionDays, dateNow) ==
    IF retentionDays > 0
    THEN LET cutoffTimestamp == dateNow - (retentionDays * MsPerDay)
         IN {delete(db, {i \in S : db[i].timestamp < cutoffTimestamp}) :
                S \in queryAsc(db, {0}, {0}, BulkQueryLimit)}
    ELSE {db}

\* HistoryManager.enforceStorageLimits: the stores it may leave
enforceStorageLimits(db, maxItems, retentionDays, dateNow) ==
    UNION {retentionPass(d, retentionDays, dateNow) : d \in countPass(db, maxItems)}

\* HistoryManager.addItem: its outcomes, each the store afterwards, the value
\* returned and whether a row was inserted
addItem(db, item, maxItems, retentionDays, dateNow) ==
    LET existing == existsByHash(db, item.contentHash)
    IN IF existing # {}
       THEN {[db |-> update(db, existingId, [timestamp |-> item.timestamp]),
              ret |-> existingId, inserted |-> FALSE] : existingId \in existing}
       ELSE IF insertThrows(db, toDatabase(item))
       THEN {[db |-> db, ret |-> Threw, inserted |-> FALSE]}
       ELSE {[db |-> d, ret |-> item.id, inserted |-> TRUE] :
                d \in enforceStorageLimits(insert(db, toDatabase(item)),
                                           maxItems, retentionDays, dateNow)}

\* HistoryManager.getItems with its default options
getItems(db) == queryDesc(db, AnyFlag, {0}, DefaultQueryLimit)

\* HistoryManager.getItemById: the row, or NullItem for null
NullItem == [id |-> NoId]
getItemById(db, id) == IF id \in DOMAIN db THEN db[id] ELSE NullItem

\* a clear-all whose query does not filter on the trash flag
clearAllHistory_Trashed(db) == queryDescIds(db, {0}, AnyFlag, BulkQueryLimit)

\* HistoryManager.clearAllHistory: the sets of ids it may delete
clearAllHistory(db) == queryDescIds(db, {0}, {0}, BulkQueryLimit)

\* an empty-trash whose query does not filter on the trash flag
emptyTrash_All(db) == queryDescIds(db, AnyFlag, AnyFlag, BulkQueryLimit)

\* HistoryManager.emptyTrash: the sets of ids it may delete
emptyTrash(db) == queryDescIds(db, AnyFlag, {1}, BulkQueryLimit)

(***************************************************************************)
(* Preferences and the Full Disk Access notification.  A preference map is *)
(* a function from keys to values; the model follows five of the default   *)
(* keys.                                                                   *)
(***************************************************************************)
\* PreferencesManager.defaults
defaults ==
    [copyWithFormatting |-> TRUE, autoHideAfterCopy |-> TRUE,
     sidebarPosition |-> "right", sidebarWidth |-> 400, theme |-> "system"]

\* no preferences file
NoPrefs == [k \in {} |-> FALSE]

Max(a, b) == IF a > b THEN a ELSE b

\* the spread {...prefs, ...updates}
spread(prefs, updates) ==
    [k \in DOMAIN prefs \cup DOMAIN updates |->
        IF k \in DOMAIN updates THEN updates[k] ELSE prefs[k]]

\* PreferencesManager.validateUpdates: unknown keys are skipped, known
\* ones are clamped or replaced by a fallback
validateUpdates(updates) ==
    [k \in DOMAIN updates \cap DOMAIN defaults |->
        CASE k = "sidebarWidth" -> Max(300, Min(800, updates[k]))
          [] k = "sidebarPosition" ->
                IF updates[k] \in {"left", "right"} THEN updates[k] ELSE "right"
          [] k = "theme" ->
                IF updates[k] \in {"system", "light", "dark"} THEN updates[k]
                ELSE "system"
          [] OTHER -> updates[k]]

\* PreferencesManager.update: the preferences in memory, the file and the
\* value returned; saveOk says whether writeFileSync succeeds
prefsUpdate(prefs, updates, saveOk) ==
    LET merged == spread(prefs.memory, validateUpdates(updates))
    IN [memory |-> merged,
        file |-> IF saveOk THEN merged ELSE prefs.file,
        ret |-> saveOk]

\* PreferencesManager.load
load(file) == spread(defaults, file)

\* PreferencesManager.get(key) is truthy
getTruthy(prefs, key) == key \in DOMAIN prefs /\ prefs[key] = TRUE

\* PermissionManager.shouldShowPermissionNotification; hasPermission is
\* what checkFullDiskAccess returns
shouldShowPermissionNotification(prefs, hasPermission) ==
    IF getTruthy(prefs, "fullDiskAccessNotificationDismissed") THEN FALSE
    ELSE ~hasPermission

\* the update objects handed to PreferencesManager.update: by the
\* preferences window, by a caller with a key that is no preference, and
\* by the notification's second button
PreferenceUpdates ==
    {[theme |-> "dark"], [theme |-> "neon"], [sidebarWidth |-> 200],
     [copyWithFormatting |-> FALSE, sidebarPosition |-> "left"],
     [fontSize |-> 12], [fontSize |-> 12, theme |-> "light"]}

(***************************************************************************)
(* The database file: the clipboard_items columns it has and the version   *)
(* row of db_meta (0 when there is none).                                  *)
(***************************************************************************)
currentVersion == 3

\* the columns of the first release, and those added by versions 2 and 3
BaseColumns ==
    {"id", "type", "timestamp", "is_pinned", "is_deleted", "content_hash",
     "plain_text", "rich_text", "image_data", "thumbnail_data", "file_paths",
     "color_value", "source_application", "file_size"}
V2Columns == <<"file_count", "file_types", "is_all_images">>
V3Columns == <<"image_path", "thumbnail_path">>
Range(f) == {f[i] : i \in DOMAIN f}
AllColumns == BaseColumns \cup Range(V2Columns) \cup Range(V3Columns)

\* the columns a store written by the release of version v has
ColumnsOf(v) ==
    BaseColumns \cup (IF v >= 2 THEN Range(V2Columns) ELSE {})
                \cup (IF v >= 3 THEN Range(V3Columns) ELSE {})

\* no database file yet
NoStore == [exists |-> FALSE, columns |-> {}, version |-> 0, open |-> FALSE]

\* the store the running application has open
CurrentSchema ==
    [exists |-> TRUE, columns |-> AllColumns, version |-> currentVersion,
     open |-> TRUE]

\* the store files a release can find at startup: written by the release
\* of version v, with its version row or without one
StoreFiles ==
    {[exists |-> TRUE, columns |-> ColumnsOf(v), version |-> v * r,
      open |-> FALSE] : v \in 1..currentVersion, r \in {0, 1}} \cup {NoStore}

\* a try block of ALTER TABLE ... ADD COLUMN statements: a column that is
\* already there throws, and the statements after it do not run
RECURSIVE addColumns(_, _, _)
addColumns(columns, added, pos) ==
    IF pos > Len(added) \/ added[pos] \in columns THEN columns
    ELSE addColumns(columns \cup {added[pos]}, added, pos + 1)

\* DatabaseManager.initSchema: CREATE TABLE IF NOT EXISTS, and the version
\* row when there is none
initSchema(store) ==
    [exists |-> TRUE,
     columns |-> IF store.exists THEN store.columns ELSE AllColumns,
     version |-> IF store.version = 0 THEN currentVersion ELSE store.version,
     open |-> TRUE]

\* DatabaseManager.runMigrations
runMigrations(store) ==
    IF store.version >= currentVersion THEN store
    ELSE LET to2 == IF store.version < 2
                    THEN addColumns(store.columns, V2Columns, 1)
                    ELSE store.columns
             to3 == IF store.version < 3 THEN addColumns(to2, V3Columns, 1)
                    ELSE to2
         IN [store EXCEPT !.columns = to3, !.version = currentVersion]

\* DatabaseManager.init
init(store) == runMigrations(initSchema(store))

\* the INSERT statement of DatabaseManager.insert prepares: it names every
\* column of the current schema
insertPrepares(store) == AllColumns \subseteq store.columns

(***************************************************************************)
(* State.                                                                  *)
(***************************************************************************)
VARIABLES
    rows,           \* the clipboard_items table, id -> row
    nextId,         \* the next uuid the Item Model hands out
    now,            \* Date.now()
    maxItems,       \* HistoryManager.maxItems
    retentionDays,  \* HistoryManager.retentionDays
    clipboard,      \* the OS clipboard
    lastHash,       \* ClipboardMonitor.lastHash
    isMonitoring,   \* ClipboardMonitor.isMonitoring (the interval timer exists)
    isPaused,       \* ClipboardMonitor.isPaused
    importing,      \* the import-history handler is inside its item loop
    last,           \* the Coordinator call that ran last, with its result
    e2e,            \* progress of the capture scenario Hello, World, Hello
    files,          \* the files under the Blob Store's base path
    fsCalls,        \* the file system calls of the last Blob Store operation
    inflight,       \* executions of checkClipboard awaiting saveImage
    deliveries,     \* change callbacks run for the content now on the clipboard
    interval,       \* ClipboardMonitor.interval holds a timer handle
    timers,         \* the periodic timers that are scheduled
    fanout,         \* executions of the files branch awaiting saveImage
    delivered,      \* the file list sampled last and the items it yielded
    preferences,    \* PreferencesManager.preferences
    notice,         \* the Full Disk Access notification and the user's answer
    schema,         \* the database file: its schema_version rows and columns
    copies          \* copy handlers between their pause and their own resume

vars == <<rows, nextId, now, maxItems, retentionDays, clipboard, lastHash,
          isMonitoring, isPaused, importing, last, e2e, files, fsCalls,
          inflight, deliveries, interval, timers, fanout, delivered,
          preferences, notice, schema, copies>>

storeVars == <<rows, nextId, last, e2e>>
prefVars == <<maxItems, retentionDays>>
appVars == <<preferences, notice, schema, copies>>
timerVars == <<interval, timers>>
pollerVars == <<lastHash, isMonitoring, isPaused, timerVars>>
blobVars == <<files, fsCalls>>
listVars == <<fanout, delivered>>
sampleVars == <<inflight, deliveries, listVars>>

\* no file list was sampled
NoFanOut == [files |-> <<>>, items |-> <<>>]

\* a record of a call: its name, the id it addressed, the value it returned,
\* the ids of the rows it removed and whether it changed the store
Call(op, id, ret, db) ==
    [op |-> op, id |-> id, ret |-> ret, removed |-> DOMAIN rows \ DOMAIN db,
     changed |-> db # rows]

NoCall == [op |-> "init", id |-> NoId, ret |-> 0, removed |-> {}, changed |-> FALSE]

MaxItemsValues == 1..MaxLimit
RetentionValues == 0..MaxRetention

\* the fields of an item of an import file, without its hash: ids are
\* absent or ids handed out before, timestamps absent or older than every
\* capture
ImportFields ==
    [id : {NoId} \cup 1..(nextId - 1), type : {"text"},
     timestamp : {NoStamp, MsPerDay - pollInterval},
     isPinned : BOOLEAN, isDeleted : {FALSE}, contentHash : {NULL},
     plainText : {"Hello", "World"}, richText : {NULL},
     imageData : {NoImage}, imagePath : {NoPath}, thumbnailPath : {NoPath},
     filePaths : {NoList}, colorValue : {NULL}, fileSize : {NoSize},
     fileCount : {NoSize}, fileTypes : {NULL}, isAllImages : {0}]

\* items as export-history writes them with toDatabase (live rows with
\* their hash; the user may have edited the id out)
ImportItems ==
    {[d EXCEPT !.contentHash = generateHash(d.plainText, "text")] :
        d \in ImportFields}

\* items of a file written by hand: a type and a text, nothing else
HandWrittenItems ==
    {d \in ImportFields : d.id = NoId /\ d.timestamp = NoStamp /\ ~d.isPinned}

\* HistoryManager constructor and PasteBroApp.initializeManagers on a fresh
\* store: the preferences file decides the two limits
Init ==
    /\ rows = EmptyDb
    /\ nextId = 1
    /\ now = MsPerDay
    /\ maxItems \in MaxItemsValues
    /\ retentionDays \in RetentionValues
    /\ clipboard = EmptyClipboard
    /\ lastHash = NULL
    /\ isMonitoring = FALSE
    /\ isPaused = FALSE
    /\ importing = FALSE
    /\ last = NoCall
    /\ e2e = 0
    /\ files = {}
    /\ fsCalls = {}
    /\ inflight = {}
    /\ deliveries = 0
    /\ interval = FALSE
    /\ timers = 0
    /\ fanout = {}
    /\ delivered = NoFanOut
    /\ preferences = [memory |-> defaults, file |-> NoPrefs]
    /\ notice = [showing |-> FALSE, dismissed |-> FALSE]
    /\ schema = CurrentSchema
    /\ copies = 0

(***************************************************************************)
(* Capture path.                                                           *)
(***************************************************************************)
\* the scenario monitor: stage reached by delivering item with outcome out
e2eStep(item, out) ==
    LET kept == DOMAIN rows \subseteq DOMAIN out.db
                /\ (out.inserted => item.id \in DOMAIN out.db)
    IN IF ~kept \/ item.type # "text" THEN 0 - 1
       ELSE IF e2e = 0 /\ rows = EmptyDb /\ item.plainText = "Hello" THEN 1
       ELSE IF e2e = 1 /\ item.plainText = "World" THEN 2
       ELSE IF e2e = 2 /\ item.plainText = "Hello" THEN 3
       ELSE 0 - 1

\* PasteBroApp.handleClipboardChange: addItem of the captured item; fresh
\* says that the item's id is the uuid drawn for it by this step
handleClipboardChange(item, dateNow, fresh) ==
    \E out \in addItem(rows, item, maxItems, retentionDays, dateNow) :
        /\ (fresh /\ out.inserted) => nextId <= MaxIds
        /\ rows' = out.db
        /\ nextId' = IF fresh /\ out.inserted THEN nextId + 1 ELSE nextId
        /\ last' = Call("addItem", item.id, out.ret, out.db)
        /\ e2e' = e2eStep(item, out)
        /\ deliveries' =
               IF item.contentHash =
                      generateContentHash(captureClipboardContent(clipboard))
               THEN deliveries + 1 ELSE deliveries

\* a sampling routine that does not compare the hash with lastHash
checkClipboard_NoGate(dateNow) ==
    LET content == captureClipboardContent(clipboard)
        currentHash == generateContentHash(content)
    IN IF content.isNull \/ content.text = ""
       THEN UNCHANGED <<lastHash, storeVars, sampleVars>>
       ELSE /\ lastHash' = currentHash
            /\ handleClipboardChange(
                   createClipboardItem(content, currentHash, nextId, dateNow),
                   dateNow, TRUE)
            /\ UNCHANGED <<inflight, listVars>>

\* the File item the files branch of createClipboardItem builds
createFileItem(filePath, uuid, dateNow) ==
    ClipboardItem([ItemData EXCEPT
                      !.type = "file", !.filePaths = <<filePath>>,
                      !.contentHash = generateContentHash(
                          [NoContent EXCEPT !.fileUrl = filePath])],
                  uuid, dateNow)

\* the loop of the files branch of createClipboardItem from the file at pos
\* on, up to the next await of saveImage or to the end of the list: the
\* position reached, the items pushed and the next uuid.  An image file
\* that cannot be read pushes nothing
RECURSIVE createFileItems(_, _, _, _, _)
createFileItems(filePaths, pos, items, uuid, dateNow) ==
    IF pos > Len(filePaths)
    THEN [pos |-> pos, items |-> items, uuid |-> uuid]
    ELSE IF isImageFile(filePaths[pos])
    THEN IF loadImageFromFile(filePaths[pos]) # NoImage
         THEN [pos |-> pos, items |-> items, uuid |-> uuid]
         ELSE createFileItems(filePaths, pos + 1, items, uuid, dateNow)
    ELSE createFileItems(filePaths, pos + 1,
                         Append(items,
                                createFileItem(filePaths[pos], uuid, dateNow)),
                         uuid + 1, dateNow)

\* the array dispatch of checkClipboard: the change callback runs for the
\* items one after the other, each call an addItem on the store the call
\* before it left
RECURSIVE dispatch(_, _, _)
dispatch(db, items, dateNow) ==
    IF items = <<>> THEN {[db |-> db, ret |-> 0]}
    ELSE UNION {IF Len(items) = 1 THEN {[db |-> out.db, ret |-> out.ret]}
                ELSE dispatch(out.db, Tail(items), dateNow) :
                out \in addItem(db, Head(items), maxItems, retentionDays,
                                dateNow)}

\* createClipboardItem returned the items of the file list filePaths
fanOutReturns(filePaths, items, dateNow) ==
    /\ \E r \in dispatch(rows, items, dateNow) :
        /\ rows' = r.db
        /\ last' = Call(IF items = <<>> THEN "createClipboardItem"
                        ELSE "addItem",
                        IF items = <<>> THEN NoId ELSE items[Len(items)].id,
                        r.ret, r.db)
    /\ e2e' = 0 - 1
    /\ delivered' = [files |-> filePaths, items |-> items]
    /\ deliveries' = IF captureClipboardContent(clipboard).files = filePaths
                     THEN deliveries + Len(items) ELSE deliveries

\* the files branch of createClipboardItem, started by checkClipboard
fanOutStarts(filePaths, dateNow) ==
    LET run == createFileItems(filePaths, 1, <<>>, nextId, dateNow)
    IN /\ run.uuid <= MaxIds + 1
       /\ nextId' = run.uuid
       /\ IF run.pos <= Len(filePaths)
          THEN /\ fanout' = fanout \cup
                      {[files |-> filePaths, pos |-> run.pos,
                        items |-> run.items]}
               /\ UNCHANGED <<rows, last, e2e, inflight, deliveries, delivered>>
          ELSE /\ fanOutReturns(filePaths, run.items, dateNow)
               /\ UNCHANGED <<inflight, fanout>>

\* a sampling routine that records the hash of an image only once its item
\* has been built
checkClipboard_LateHash(dateNow) ==
    LET content == captureClipboardContent(clipboard)
        currentHash == generateContentHash(content)
    IN IF content.isNull \/ currentHash = lastHash
       THEN UNCHANGED <<lastHash, storeVars, sampleVars>>
       ELSE /\ lastHash' = IF content.image # NoImage THEN lastHash
                           ELSE currentHash
            /\ IF content.image # NoImage
               THEN /\ nextId <= MaxIds
                    /\ nextId' = nextId + 1
                    /\ inflight' = inflight \cup
                           {[id |-> nextId, image |-> content.image,
                             hash |-> currentHash]}
                    /\ UNCHANGED <<rows, last, e2e, deliveries, listVars>>
               ELSE IF content.files # NoList
               THEN fanOutStarts(content.files, dateNow)
               ELSE IF content.text = ""
               THEN UNCHANGED <<storeVars, sampleVars>>
               ELSE /\ handleClipboardChange(
                           createClipboardItem(content, currentHash, nextId, dateNow),
                           dateNow, TRUE)
                    /\ UNCHANGED <<inflight, listVars>>

\* ClipboardMonitor.checkClipboard run at time dateNow
checkClipboard(dateNow) ==
    LET content == captureClipboardContent(clipboard)
        currentHash == generateContentHash(content)
    IN IF content.isNull \/ currentHash = lastHash
       THEN UNCHANGED <<lastHash, storeVars, sampleVars>>
       ELSE /\ lastHash' = currentHash
            /\ IF content.image # NoImage
               THEN \* createClipboardItem awaits saveImage(content.image)
                    /\ nextId <= MaxIds
                    /\ nextId' = nextId + 1
                    /\ inflight' = inflight \cup
                           {[id |-> nextId, image |-> content.image,
                             hash |-> currentHash]}
                    /\ UNCHANGED <<rows, last, e2e, deliveries, listVars>>
               ELSE IF content.files # NoList
               THEN fanOutStarts(content.files, dateNow)
               ELSE IF content.text = ""
               THEN UNCHANGED <<storeVars, sampleVars>>
               ELSE /\ handleClipboardChange(
                           createClipboardItem(content, currentHash, nextId, dateNow),
                           dateNow, TRUE)
                    /\ UNCHANGED <<inflight, listVars>>

\* another application copies something
OSCopy(cb) ==
    /\ ~importing
    /\ cb # clipboard
    /\ clipboard' = cb
    /\ deliveries' = 0
    /\ UNCHANGED <<storeVars, now, prefVars, appVars, pollerVars, importing, blobVars,
                   inflight, listVars>>

\* a start that does not look at isMonitoring
StartMonitoring_NoGuard ==
    /\ ~importing
    /\ isMonitoring' = TRUE
    /\ isPaused' = FALSE
    /\ checkClipboard(now)
    /\ interval' = TRUE
    /\ timers' = timers + 1
    /\ UNCHANGED <<now, prefVars, appVars, clipboard, importing, blobVars>>

\* ClipboardMonitor.startMonitoring
StartMonitoring ==
    /\ ~importing
    /\ IF isMonitoring
       THEN UNCHANGED <<pollerVars, storeVars, sampleVars>>
       ELSE /\ isMonitoring' = TRUE
            /\ isPaused' = FALSE
            /\ checkClipboard(now)
            /\ interval' = TRUE
            /\ timers' = timers + 1
    /\ UNCHANGED <<now, prefVars, appVars, clipboard, importing, blobVars>>

\* the setInterval callback of startMonitoring, pollInterval after the last
IntervalTick ==
    /\ ~importing
    /\ timers > 0
    /\ (now % MsPerDay) \div pollInterval < MaxTicks
    /\ now' = now + pollInterval
    /\ IF isPaused
       THEN UNCHANGED <<lastHash, storeVars, sampleVars>>
       ELSE checkClipboard(now')
    /\ UNCHANGED <<prefVars, appVars, clipboard, isMonitoring, isPaused, timerVars,
                   importing, blobVars>>

\* a day passes
AdvanceClock ==
    /\ ~importing
    /\ now \div MsPerDay <= MaxDays
    /\ now' = now + MsPerDay
    /\ e2e' = 0 - 1
    /\ UNCHANGED <<rows, nextId, last, prefVars, appVars, clipboard, pollerVars, importing, blobVars, sampleVars>>

(***************************************************************************)
(* Coordinator calls made by the IPC handlers.                             *)
(***************************************************************************)
\* a call that changes the store to db and returns ret
StoreCall(op, id, db, ret) ==
    /\ ~importing
    /\ rows' = db
    /\ last' = Call(op, id, ret, db)
    /\ e2e' = 0 - 1
    /\ UNCHANGED <<nextId, now, prefVars, appVars, clipboard, pollerVars, importing, blobVars, sampleVars>>

Flag(b) == IF b THEN 1 ELSE 0

\* HistoryManager.pinItem
PinItem(id) ==
    StoreCall("pinItem", id, update(rows, id, [isPinned |-> TRUE]),
              Flag(updateChanges(rows, id, [isPinned |-> TRUE])))

\* HistoryManager.unpinItem
UnpinItem(id) ==
    StoreCall("unpinItem", id, update(rows, id, [isPinned |-> FALSE]),
              Flag(updateChanges(rows, id, [isPinned |-> FALSE])))

\* HistoryManager.togglePin
TogglePin(id) ==
    IF id \notin DOMAIN rows
    THEN StoreCall("togglePin", id, rows, 0)
    ELSE LET to == rows[id].is_pinned # 1
         IN StoreCall("togglePin", id, update(rows, id, [isPinned |-> to]),
                      Flag(updateChanges(rows, id, [isPinned |-> to])))

\* HistoryManager.moveToTrash
MoveToTrash(id) ==
    StoreCall("moveToTrash", id, update(rows, id, [isDeleted |-> TRUE]),
              Flag(updateChanges(rows, id, [isDeleted |-> TRUE])))

\* HistoryManager.restoreFromTrash
RestoreFromTrash(id) ==
    StoreCall("restoreFromTrash", id, update(rows, id, [isDeleted |-> FALSE]),
              Flag(updateChanges(rows, id, [isDeleted |-> FALSE])))

\* HistoryManager.deleteItems
DeleteItems(ids) ==
    StoreCall("deleteItems", NoId, delete(rows, ids), deleteChanges(rows, ids))

\* HistoryManager.emptyTrash
EmptyTrash ==
    \E ids \in emptyTrash(rows) :
        StoreCall("emptyTrash", NoId, delete(rows, ids), deleteChanges(rows, ids))

\* HistoryManager.clearAllHistory
ClearAllHistory ==
    \E ids \in clearAllHistory(rows) :
        StoreCall("clearAllHistory", NoId, delete(rows, ids),
                  deleteChanges(rows, ids))

\* HistoryManager.enforceStorageLimits, as run at startup
EnforceStorageLimits ==
    \E db \in enforceStorageLimits(rows, maxItems, retentionDays, now) :
        StoreCall("enforceStorageLimits", NoId, db, 0)

\* HistoryManager.updatePreferences
UpdatePreferences(m, r) ==
    /\ ~importing
    /\ maxItems' = m
    /\ retentionDays' = r
    /\ \E db \in enforceStorageLimits(rows, m, r, now) :
        /\ rows' = db
        /\ last' = Call("updatePreferences", NoId, 0, db)
    /\ e2e' = 0 - 1
    /\ UNCHANGED <<nextId, now, clipboard, pollerVars, importing, blobVars,
                   sampleVars, appVars>>

(***************************************************************************)
(* import-history: the handler's item loop runs without a macrotask await, *)
(* so nothing else runs while it is in the loop.                           *)
(***************************************************************************)
\* import-history up to its loop: replace mode clears the history first
ImportBegin(merge) ==
    /\ ~importing
    /\ importing' = TRUE
    /\ \E ids \in clearAllHistory(rows) :
        /\ rows' = IF merge THEN rows ELSE delete(rows, ids)
        /\ last' = Call("importBegin", NoId, 0, rows')
    /\ e2e' = 0 - 1
    /\ UNCHANGED <<nextId, now, prefVars, appVars, clipboard, pollerVars, blobVars, sampleVars>>

\* one pass of the loop: fromDatabase, then addItem
ImportItem(itemData) ==
    /\ importing
    /\ LET item == fromDatabase(itemData, nextId, now)
       IN \E out \in addItem(rows, item, maxItems, retentionDays, now) :
            /\ out.inserted /\ itemData.id = NoId => nextId <= MaxIds
            /\ rows' = out.db
            /\ nextId' = IF out.inserted /\ itemData.id = NoId
                         THEN nextId + 1 ELSE nextId
            /\ last' = Call("addItem", item.id, out.ret, out.db)
    /\ e2e' = 0 - 1
    /\ UNCHANGED <<now, prefVars, appVars, clipboard, pollerVars, importing, blobVars, sampleVars>>

\* the handler returns
ImportEnd ==
    /\ importing
    /\ importing' = FALSE
    /\ last' = Call("import", NoId, 0, rows)
    /\ UNCHANGED <<rows, nextId, e2e, now, prefVars, appVars, clipboard, pollerVars, blobVars, sampleVars>>

Next ==
    \/ \E cb \in Clipboards : OSCopy(cb)
    \/ StartMonitoring
    \/ IntervalTick
    \/ AdvanceClock
    \/ \E id \in 1..MaxIds : PinItem(id)
    \/ \E id \in 1..MaxIds : UnpinItem(id)
    \/ \E id \in 1..MaxIds : TogglePin(id)
    \/ \E id \in 1..MaxIds : MoveToTrash(id)
    \/ \E id \in 1..MaxIds : RestoreFromTrash(id)
    \/ \E ids \in SUBSET (1..MaxIds) : DeleteItems(ids)
    \/ EmptyTrash
    \/ ClearAllHistory
    \/ EnforceStorageLimits
    \/ \E m \in MaxItemsValues, r \in RetentionValues : UpdatePreferences(m, r)

\* the running application: the poller and the IPC handlers
Spec == Init /\ [][Next]_vars

\* an import session: import-history and the IPC handlers on its rows
NextImport ==
    \/ \E merge \in BOOLEAN : ImportBegin(merge)
    \/ \E itemData \in ImportItems : ImportItem(itemData)
    \/ ImportEnd
    \/ AdvanceClock
    \/ \E id \in 1..MaxIds : TogglePin(id)
    \/ \E id \in 1..MaxIds : MoveToTrash(id)
    \/ \E id \in 1..MaxIds : RestoreFromTrash(id)
    \/ EmptyTrash
    \/ ClearAllHistory
    \/ \E m \in MaxItemsValues, r \in RetentionValues : UpdatePreferences(m, r)

SpecImport == Init /\ [][NextImport]_vars

NextHandWritten ==
    \/ \E merge \in BOOLEAN : ImportBegin(merge)
    \/ \E itemData \in HandWrittenItems : ImportItem(itemData)
    \/ ImportEnd
    \/ \E id \in 1..MaxIds : MoveToTrash(id)
    \/ \E id \in 1..MaxIds : TogglePin(id)
    \/ EmptyTrash

\* an import session on a file written by hand
SpecHandWritten == Init /\ [][NextHandWritten]_vars

(***************************************************************************)
(* Blob Store (imageStorageManager.js).  An id is a string, modelled as    *)
(* the sequence of its characters; a file is named by its directory, the   *)
(* id its name was built from and its extension.                           *)
(***************************************************************************)
Chars == {"a", ".", "/", "\\"}
BlobIds == UNION {[1..n -> Chars] : n \in 0..MaxIdLen}

\* the id string of the n-th uuid handed out
Uuid(n) == <<ToString(n)>>

\* String.prototype.includes
includes(str, sub) ==
    \E i \in 1..(Len(str) - Len(sub) + 1) : SubSeq(str, i, i + Len(sub) - 1) = sub

\* the guard of deleteImage, readImage and readThumbnail; null and the empty
\* string are both the empty sequence
invalidId(id) ==
    \/ id = <<>>
    \/ includes(id, <<".", ".">>)
    \/ includes(id, <<"/">>)
    \/ includes(id, <<"\\">>)

\* path.join(imagesPath | thumbnailsPath, id + extension)
BlobFile(dir, id, ext) == [dir |-> dir, name |-> id, ext |-> ext]

\* ImageStorageManager.getImagePath
getImagePath(id) == BlobFile("images", id, ".png")

\* ImageStorageManager.getThumbnailPath
getThumbnailPath(id) == BlobFile("thumbnails", id, ".jpg")

\* a file system call made by an operation
FsCall(op, file) == [op |-> op, file |-> file]

\* ImageStorageManager.saveImage: uuid is what crypto.randomUUID() returns,
\* compressOk and thumbOk say whether sharp and the write succeed for the
\* full image and for the thumbnail
saveImage(fs, id, uuid, compressOk, thumbOk) ==
    LET imageId == IF id = <<>> THEN uuid ELSE id
        imagePath == BlobFile("images", imageId, ".webp")
        thumbnailPath == BlobFile("thumbnails", imageId, ".jpg")
    IN IF ~compressOk
       THEN [files |-> fs, calls |-> {}, threw |-> TRUE, id |-> imageId,
             imagePath |-> imagePath, thumbnailPath |-> thumbnailPath]
       ELSE IF ~thumbOk
       THEN [files |-> fs \cup {imagePath},
             calls |-> {FsCall("writeFile", imagePath)},
             threw |-> TRUE, id |-> imageId,
             imagePath |-> imagePath, thumbnailPath |-> thumbnailPath]
       ELSE [files |-> fs \cup {imagePath, thumbnailPath},
             calls |-> {FsCall("writeFile", imagePath),
                        FsCall("writeFile", thumbnailPath)},
             threw |-> FALSE, id |-> imageId,
             imagePath |-> imagePath, thumbnailPath |-> thumbnailPath]

\* ImageStorageManager.deleteImage
deleteImage(fs, id) ==
    IF invalidId(id)
    THEN [files |-> fs, calls |-> {}, threw |-> TRUE, ret |-> FALSE]
    ELSE [files |-> fs \ {BlobFile("images", id, ".png"),
                          BlobFile("thumbnails", id, ".jpg")},
          calls |-> {FsCall("unlink", BlobFile("images", id, ".png")),
                     FsCall("unlink", BlobFile("thumbnails", id, ".jpg"))},
          threw |-> FALSE, ret |-> TRUE]

\* ImageStorageManager.imageExists
imageExists(fs, id) ==
    [files |-> fs,
     calls |-> {FsCall("access", BlobFile("images", id, ".png"))},
     threw |-> FALSE, ret |-> BlobFile("images", id, ".png") \in fs]

\* ImageStorageManager.readImage: ret says whether it returned a buffer
readImage(fs, id) ==
    IF invalidId(id)
    THEN [files |-> fs, calls |-> {}, threw |-> TRUE, ret |-> FALSE]
    ELSE [files |-> fs, calls |-> {FsCall("readFile", getImagePath(id))},
          threw |-> FALSE, ret |-> getImagePath(id) \in fs]

\* ImageStorageManager.readThumbnail: ret says whether it returned a buffer
readThumbnail(fs, id) ==
    IF invalidId(id)
    THEN [files |-> fs, calls |-> {}, threw |-> TRUE, ret |-> FALSE]
    ELSE [files |-> fs, calls |-> {FsCall("readFile", getThumbnailPath(id))},
          threw |-> FALSE, ret |-> getThumbnailPath(id) \in fs]

\* an operation of the Blob Store ran with outcome out
BlobCall(op, out, ret) ==
    /\ files' = out.files
    /\ fsCalls' = out.calls
    /\ last' = [op |-> op, id |-> NoId,
                ret |-> IF out.threw THEN Threw ELSE Flag(ret),
                removed |-> {}, changed |-> FALSE]
    /\ UNCHANGED <<rows, now, prefVars, appVars, clipboard, pollerVars, importing, e2e,
                   sampleVars>>

SaveImage(id, compressOk, thumbOk) ==
    LET out == saveImage(files, id, Uuid(nextId), compressOk, thumbOk)
    IN /\ Cardinality(files \cup out.files) <= MaxFiles
       /\ id = <<>> => nextId <= MaxIds
       /\ nextId' = IF id = <<>> THEN nextId + 1 ELSE nextId
       /\ BlobCall("saveImage", out, TRUE)

BlobOp(op, out) == BlobCall(op, out, out.ret) /\ UNCHANGED nextId

DeleteImage(id) == BlobOp("deleteImage", deleteImage(files, id))

ImageExists(id) == BlobOp("imageExists", imageExists(files, id))

ReadImage(id) == BlobOp("readImage", readImage(files, id))

ReadThumbnail(id) == BlobOp("readThumbnail", readThumbnail(files, id))

NextBlob ==
    \/ \E id \in BlobIds, compressOk, thumbOk \in BOOLEAN :
        SaveImage(id, compressOk, thumbOk)
    \/ \E id \in BlobIds : DeleteImage(id)
    \/ \E id \in BlobIds : ImageExists(id)
    \/ \E id \in BlobIds : ReadImage(id)
    \/ \E id \in BlobIds : ReadThumbnail(id)

\* the Blob Store on its own, its directories just created
InitBlob == Init /\ maxItems = MaxLimit /\ retentionDays = 0

SpecBlob == InitBlob /\ [][NextBlob]_vars

(***************************************************************************)
(* Startup on a pre-existing store: the rows an earlier session left, and  *)
(* the limits of the preferences file, met by enforcement and clearing.    *)
(***************************************************************************)
\* a store of k rows captured one poll interval apart (stride 1) or in
\* pairs of equal timestamp (stride 2)
StoredRows(k, stride, pinned, deleted) ==
    [i \in 1..k |->
        [id |-> i, type |-> "text",
         timestamp |-> MsPerDay + ((i + stride - 1) \div stride) * pollInterval,
         is_pinned |-> IF i \in pinned THEN 1 ELSE 0,
         is_deleted |-> IF i \in deleted THEN 1 ELSE 0,
         content_hash |-> Sha256("clip" \o ToString(i)),
         plain_text |-> "clip" \o ToString(i), rich_text |-> NULL,
         image_data |-> NoImage, file_paths |-> NULL,
         image_path |-> NoPath, thumbnail_path |-> NoPath]]

InitEvict ==
    /\ \E k \in 0..MaxRows, stride \in 1..2 :
        \E pinned \in SUBSET (1..k), deleted \in SUBSET ((1..k) \cap (1..2)) :
            /\ rows = StoredRows(k, stride, pinned, deleted)
            /\ nextId = k + 1
    /\ \E j \in 0..MaxRows : now = 2 * MsPerDay + j * pollInterval
    /\ maxItems \in MaxItemsValues
    /\ retentionDays \in RetentionValues
    /\ clipboard = EmptyClipboard
    /\ lastHash = NULL
    /\ isMonitoring = FALSE
    /\ isPaused = FALSE
    /\ importing = FALSE
    /\ last = NoCall
    /\ e2e = 0 - 1
    /\ files = {}
    /\ fsCalls = {}
    /\ inflight = {}
    /\ deliveries = 0
    /\ interval = FALSE
    /\ timers = 0
    /\ fanout = {}
    /\ delivered = NoFanOut
    /\ preferences = [memory |-> defaults, file |-> NoPrefs]
    /\ notice = [showing |-> FALSE, dismissed |-> FALSE]
    /\ schema = CurrentSchema
    /\ copies = 0

NextEvict ==
    \/ EnforceStorageLimits
    \/ \E m \in MaxItemsValues, r \in RetentionValues : UpdatePreferences(m, r)
    \/ ClearAllHistory

SpecEvict == InitEvict /\ [][NextEvict]_vars

(***************************************************************************)
(* Image capture and the migration of inline image data (main.js,          *)
(* clipboardMonitor.js).  A sample with an image awaits saveImage, which   *)
(* spans several turns of the event loop: the execution of checkClipboard  *)
(* waits in inflight until the save settles.                               *)
(***************************************************************************)
\* ClipboardMonitor.createClipboardItem, image branch, after saveImage
\* returned saved for the execution e
createImageItem(e, saved, dateNow) ==
    ClipboardItem([ItemData EXCEPT
                      !.id = e.id, !.type = "image",
                      !.contentHash = e.hash,
                      !.imagePath = saved.imagePath,
                      !.thumbnailPath = saved.thumbnailPath],
                  e.id, dateNow)

\* the saveImage awaited by the execution e of checkClipboard settles: the
\* item goes to the change callback, or the catch of createClipboardItem
\* turns the rejection into null and nothing is delivered
SaveImageSettles(e, compressOk, thumbOk) ==
    /\ ~importing
    /\ e \in inflight
    /\ inflight' = inflight \ {e}
    /\ LET saved == saveImage(files, <<>>, Uuid(e.id), compressOk, thumbOk)
       IN /\ files' = saved.files
          /\ fsCalls' = saved.calls
          /\ IF saved.threw
             THEN /\ last' = Call("createClipboardItem", e.id, 0, rows)
                  /\ UNCHANGED <<rows, nextId, e2e, deliveries>>
             ELSE handleClipboardChange(createImageItem(e, saved, now), now, FALSE)
    /\ UNCHANGED <<now, prefVars, appVars, clipboard, pollerVars, importing, listVars>>

\* the saveImage awaited by the execution x of the files branch settles:
\* the Image item is pushed and the loop runs on, or the catch of
\* createClipboardItem turns the rejection into null and the items pushed
\* so far are dropped
FileImageSettles(x, compressOk, thumbOk) ==
    /\ ~importing
    /\ x \in fanout
    /\ nextId <= MaxIds
    /\ LET imageData == loadImageFromFile(x.files[x.pos])
           saved == saveImage(files, <<>>, Uuid(nextId), compressOk, thumbOk)
           item == createImageItem(
                       [id |-> nextId,
                        hash |-> generateContentHash(
                                     [NoContent EXCEPT !.image = imageData])],
                       saved, now)
           run == createFileItems(x.files, x.pos + 1, Append(x.items, item),
                                  nextId + 1, now)
       IN /\ files' = saved.files
          /\ fsCalls' = saved.calls
          /\ IF saved.threw
             THEN /\ fanout' = fanout \ {x}
                  /\ delivered' = [files |-> x.files, items |-> <<>>]
                  /\ last' = Call("createClipboardItem", nextId, 0, rows)
                  /\ UNCHANGED <<rows, nextId, e2e, deliveries>>
             ELSE /\ run.uuid <= MaxIds + 1
                  /\ nextId' = run.uuid
                  /\ IF run.pos <= Len(x.files)
                     THEN /\ fanout' = (fanout \ {x}) \cup
                                 {[files |-> x.files, pos |-> run.pos,
                                   items |-> run.items]}
                          /\ UNCHANGED <<rows, last, e2e, deliveries, delivered>>
                     ELSE /\ fanout' = fanout \ {x}
                          /\ fanOutReturns(x.files, run.items, now)
    /\ UNCHANGED <<now, prefVars, appVars, clipboard, pollerVars, importing, inflight>>

\* a store of k image rows written by a version that kept images inline
LegacyImage == <<"L", "1">>
LegacyRows(k) ==
    [i \in 1..k |->
        [id |-> i, type |-> "image", timestamp |-> MsPerDay - pollInterval,
         is_pinned |-> 0, is_deleted |-> 0,
         content_hash |-> Sha256(base64Head(LegacyImage)),
         plain_text |-> NULL, rich_text |-> NULL,
         image_data |-> LegacyImage, file_paths |-> NULL,
         image_path |-> NoPath, thumbnail_path |-> NoPath]]

MigrationPasses == {"startup", "background", "load", "copy"}

\* the ids of the rows a migration pass reads
migrationQuery(db, pass) ==
    CASE pass = "startup" -> queryDescIds(db, AnyFlag, AnyFlag, BulkQueryLimit)
      [] pass = "background" -> queryDescIds(db, AnyFlag, AnyFlag, MigrationBatch)
      [] pass = "load" -> queryDescIds(db, AnyFlag, {0}, SidebarItemLimit)
      [] OTHER -> {DOMAIN db}

\* the filter of a migration pass: rows with inline image data and no path
blobItems(db, pass) ==
    UNION {{i \in S : /\ pass = "startup" \/ db[i].type = "image"
                      /\ db[i].image_data # NoImage
                      /\ db[i].image_path = NoPath} :
           S \in migrationQuery(db, pass)}

\* the fields a migration pass hands to DatabaseManager.update
migrationUpdates(pass, saved) ==
    IF pass = "startup"
    THEN [image_path |-> saved.imagePath, thumbnail_path |-> saved.thumbnailPath]
    ELSE [image_path |-> saved.imagePath, thumbnail_path |-> saved.thumbnailPath,
          image_data |-> NoImage, thumbnail_data |-> NoImage]

\* the store after a migration pass handled row id with outcome saved
migrated(db, pass, id, saved) ==
    IF saved.threw THEN db ELSE update(db, id, migrationUpdates(pass, saved))

\* one turn of the loop of migrateBlobImagesToFiles (startup), of the
\* 2-second timer of startBackgroundMigration (background) or of the
\* get-clipboard-history handler (load): saveImage under the row's id,
\* then update
Migrate(pass, id, compressOk, thumbOk) ==
    /\ ~importing
    /\ pass # "copy"
    /\ id \in blobItems(rows, pass)
    /\ LET saved == saveImage(files, Uuid(id), Uuid(id), compressOk, thumbOk)
       IN /\ files' = saved.files
          /\ fsCalls' = saved.calls
          /\ rows' = migrated(rows, pass, id, saved)
          /\ last' = Call("migrate", id, Flag(~saved.threw), rows')
    /\ e2e' = 0 - 1
    /\ UNCHANGED <<nextId, now, prefVars, appVars, clipboard, pollerVars, importing,
                   sampleVars>>

\* the copy-to-clipboard handler on an image row that still holds inline
\* data: pause, migrate, write the image to the clipboard, update the
\* timestamp, and leave the resume to a timer
CopyToClipboard(id, compressOk, thumbOk) ==
    /\ ~importing
    /\ id \in blobItems(rows, "copy")
    /\ isPaused' = TRUE
    /\ LET saved == saveImage(files, Uuid(id), Uuid(id), compressOk, thumbOk)
       IN /\ files' = saved.files
          /\ fsCalls' = saved.calls
          /\ rows' = update(migrated(rows, "copy", id, saved), id,
                            [timestamp |-> now])
          /\ last' = Call("copyToClipboard", id, 1, rows')
    /\ clipboard' = [EmptyClipboard EXCEPT !.formats = {"image/png"},
                                            !.image = rows[id].image_data,
                                            !.writer = "app"]
    /\ deliveries' = IF clipboard' = clipboard THEN deliveries ELSE 0
    /\ e2e' = 0 - 1
    /\ UNCHANGED <<nextId, now, prefVars, appVars, lastHash, isMonitoring, timerVars,
                   importing, inflight, listVars>>

\* ClipboardMonitor.resumeMonitoring while paused: called by the timer of
\* the image copy or by the catch branch of a copy handler
ResumeMonitoring ==
    /\ ~importing
    /\ isPaused
    /\ isPaused' = FALSE
    /\ UNCHANGED <<storeVars, now, prefVars, appVars, clipboard, lastHash, isMonitoring,
                   timerVars, importing, blobVars, sampleVars>>

InitImage ==
    /\ \E k \in 0..MaxLegacy :
        /\ rows = LegacyRows(k)
        /\ nextId = k + 1
    /\ now = MsPerDay
    /\ maxItems \in MaxItemsValues
    /\ retentionDays = 0
    /\ clipboard = EmptyClipboard
    /\ lastHash = NULL
    /\ isMonitoring = FALSE
    /\ isPaused = FALSE
    /\ importing = FALSE
    /\ last = NoCall
    /\ e2e = 0 - 1
    /\ files = {}
    /\ fsCalls = {}
    /\ inflight = {}
    /\ deliveries = 0
    /\ interval = FALSE
    /\ timers = 0
    /\ fanout = {}
    /\ delivered = NoFanOut
    /\ preferences = [memory |-> defaults, file |-> NoPrefs]
    /\ notice = [showing |-> FALSE, dismissed |-> FALSE]
    /\ schema = CurrentSchema
    /\ copies = 0

NextImage ==
    \/ \E cb \in ImageClipboards : OSCopy(cb)
    \/ StartMonitoring
    \/ IntervalTick
    \/ \E e \in inflight : \E compressOk, thumbOk \in BOOLEAN :
          SaveImageSettles(e, compressOk, thumbOk)
    \/ \E pass \in MigrationPasses, id \in 1..MaxIds :
          \E compressOk, thumbOk \in BOOLEAN :
             Migrate(pass, id, compressOk, thumbOk)
    \/ \E id \in 1..MaxIds : \E compressOk, thumbOk \in BOOLEAN :
          CopyToClipboard(id, compressOk, thumbOk)
    \/ ResumeMonitoring
    \/ \E id \in 1..MaxIds : MoveToTrash(id)
    \/ \E ids \in SUBSET (1..MaxIds) : DeleteItems(ids)
    \/ EmptyTrash
    \/ ClearAllHistory

\* the running application on a store that may hold inline images
SpecImage == InitImage /\ [][NextImage]_vars

(***************************************************************************)
(* DatabaseManager.update called with the field maps its callers pass.     *)
(***************************************************************************)
\* the field maps handed to update for row id: pin and trash flags, edited
\* text, the timestamp bump of copy-to-clipboard, the maps of the migration
\* passes and a field no caller may change
UpdateMaps(id) ==
    LET saved == saveImage({}, Uuid(id), Uuid(id), TRUE, TRUE)
    IN {[isPinned |-> TRUE], [isPinned |-> FALSE],
        [isDeleted |-> TRUE], [isDeleted |-> FALSE],
        [plainText |-> "edited"], [richText |-> "<b>edited</b>"],
        [plainText |-> "edited", contentHash |-> Sha256("edited")],
        [timestamp |-> now],
        migrationUpdates("startup", saved),
        migrationUpdates("background", saved)}

\* DatabaseManager.update(id, updates)
DbUpdate(id, updates) ==
    StoreCall("update", id, update(rows, id, updates),
              Flag(updateChanges(rows, id, updates)))

InitUpdate ==
    /\ InitImage
    /\ maxItems = MaxLimit

NextUpdate ==
    \E id \in 1..MaxIds : \E updates \in UpdateMaps(id) : DbUpdate(id, updates)

\* update on a store of image rows
SpecUpdate == InitUpdate /\ [][NextUpdate]_vars

(***************************************************************************)
(* The Item Model on its own: items built from a type and a payload in the *)
(* ways the code builds them, and items serialised and read back.          *)
(***************************************************************************)
TextPayloads == {"abc", "abcd"}
RichPayloads == {NULL, "<b>abc</b>"}
ImagePayloads == {<<"A", "1">>, <<"A", "2">>, <<"B", "1">>}
FilePayloads == {<<FileA>>, <<FileB>>, <<FileA, FileB>>, <<FileB, FileA>>}
ColorPayloads == {"#FF5733", "#000000"}

\* a type with its payload, as the argument of the constructor
Payloads ==
    {[ItemData EXCEPT !.type = IF r = NULL THEN "text" ELSE "richText",
                      !.plainText = t, !.richText = r] :
        t \in TextPayloads, r \in RichPayloads}
    \cup {[ItemData EXCEPT !.type = "image", !.imageData = i] : i \in ImagePayloads}
    \cup {[ItemData EXCEPT !.type = "file", !.filePaths = f] : f \in FilePayloads}
    \cup {[ItemData EXCEPT !.type = "color", !.colorValue = c] : c \in ColorPayloads}

Ways == {"factory", "constructor", "fromDatabase"}

\* the item built from data by a factory (fromText, fromImage, fromFiles,
\* fromColor), by the constructor without a hash, or by fromDatabase of a
\* record without a hash
Built(way, data, uuid, dateNow) ==
    CASE way = "constructor" -> ClipboardItem(data, uuid, dateNow)
      [] way = "fromDatabase" -> fromDatabase(toDatabase(data), uuid, dateNow)
      [] OTHER ->
            CASE data.type \in {"text", "richText"} ->
                    fromText(data.plainText, data.richText, uuid, dateNow)
              [] data.type = "image" -> fromImage(data.imageData, uuid, dateNow)
              [] data.type = "file" -> fromFiles(data.filePaths, uuid, dateNow)
              [] OTHER -> fromColor(data.colorValue, uuid, dateNow)

\* the items that are serialised: built items, captured images, file groups,
\* each pinned or trashed or neither
SerialisedItems ==
    LET saved == saveImage({}, <<>>, Uuid(nextId), TRUE, TRUE)
        plain ==
            {Built(way, data, nextId, now) : way \in Ways, data \in Payloads}
            \cup {createImageItem([id |-> nextId, hash |-> generateHash(i, "image")],
                                  saved, now) : i \in ImagePayloads}
            \cup {createMultiFileItem(f, generateHash(f, "file"), nextId, now) :
                     f \in FilePayloads \cup {<<FileA, FileD>>}}
    IN UNION {{item, [item EXCEPT !.isPinned = TRUE],
               [item EXCEPT !.isDeleted = TRUE]} : item \in plain}

\* two items are built from the same type and payload
BuildItems(data, way1, way2) ==
    /\ last' = [op |-> "build", a |-> Built(way1, data, nextId, now),
                b |-> Built(way2, data, nextId + 1, now + pollInterval)]
    /\ UNCHANGED <<rows, nextId, e2e, now, prefVars, appVars, clipboard, pollerVars,
                   importing, blobVars, sampleVars>>

\* two items are built in the same way from payloads of one type
BuildPair(data1, data2, way) ==
    /\ data1.type = data2.type
    /\ data1 # data2
    /\ last' = [op |-> "pair", a |-> Built(way, data1, nextId, now),
                b |-> Built(way, data2, nextId + 1, now + pollInterval)]
    /\ UNCHANGED <<rows, nextId, e2e, now, prefVars, appVars, clipboard, pollerVars,
                   importing, blobVars, sampleVars>>

\* an item is serialised with toDatabase and read back with fromDatabase
RoundTrip(item) ==
    /\ last' = [op |-> "roundTrip", a |-> item,
                b |-> fromDatabase(toDatabase(item), nextId + 1,
                                   now + pollInterval)]
    /\ UNCHANGED <<rows, nextId, e2e, now, prefVars, appVars, clipboard, pollerVars,
                   importing, blobVars, sampleVars>>

InitItem == InitBlob

NextItem ==
    \/ \E data \in Payloads : \E way1, way2 \in Ways : BuildItems(data, way1, way2)
    \/ \E data1, data2 \in Payloads : \E way \in Ways : BuildPair(data1, data2, way)
    \/ \E item \in SerialisedItems : RoundTrip(item)

SpecItem == InitItem /\ [][NextItem]_vars

(***************************************************************************)
(* enforceStorageLimits on a store whose calls may throw.                  *)
(***************************************************************************)
\* where a call of the store throws during enforceStorageLimits: nowhere,
\* in the count pass (count, query or delete) or in the retention pass
\* (query or delete)
StoreFaults == {"none", "count", "retention"}

\* HistoryManager.enforceStorageLimits under a fault: its outcomes, each the
\* store afterwards and whether the call threw.  One try block holds both
\* passes, and its catch only logs
enforceStorageLimitsFault(db, maxCount, days, dateNow, fault) ==
    CASE fault = "count" -> {[db |-> db, threw |-> FALSE]}
      [] fault = "retention" /\ days > 0 ->
            {[db |-> d, threw |-> FALSE] : d \in countPass(db, maxCount)}
      [] OTHER ->
            {[db |-> d, threw |-> FALSE] :
                d \in enforceStorageLimits(db, maxCount, days, dateNow)}

\* HistoryManager.enforceStorageLimits is called while the store fails
EnforceStorageLimitsFault(fault) ==
    \E out \in enforceStorageLimitsFault(rows, maxItems, retentionDays, now, fault) :
        StoreCall("enforceStorageLimits/" \o fault, NoId, out.db,
                  IF out.threw THEN Threw ELSE 0)

NextFault ==
    \/ \E fault \in StoreFaults : EnforceStorageLimitsFault(fault)
    \/ \E m \in MaxItemsValues, r \in RetentionValues : UpdatePreferences(m, r)

SpecFault == InitEvict /\ [][NextFault]_vars

(***************************************************************************)
(* The Poller's life cycle, its error policy and its file lists: text and  *)
(* file-list clipboards, start, stop, pause and resume, samples that       *)
(* throw, and the copy-to-clipboard handler on text rows.                  *)
(***************************************************************************)
\* ClipboardMonitor.stopMonitoring
StopMonitoring ==
    /\ ~importing
    /\ IF interval
       THEN /\ timers' = timers - 1
            /\ interval' = FALSE
       ELSE UNCHANGED timerVars
    /\ isMonitoring' = FALSE
    /\ isPaused' = FALSE
    /\ UNCHANGED <<storeVars, now, prefVars, appVars, clipboard, lastHash, importing,
                   blobVars, sampleVars>>

\* ClipboardMonitor.pauseMonitoring
PauseMonitoring ==
    /\ ~importing
    /\ isPaused' = TRUE
    /\ UNCHANGED <<storeVars, now, prefVars, appVars, clipboard, lastHash, isMonitoring,
                   timerVars, importing, blobVars, sampleVars>>

\* the copy-to-clipboard handler on the text row id: pause, write the
\* text, or the markup when the row has one and copyWithFormatting is set,
\* update the timestamp, and arm the 100 ms timer of its resume; copies
\* counts the timers that are armed
CopyToClipboardText(id, copyWithFormatting) ==
    /\ ~importing
    /\ id \in DOMAIN rows
    /\ rows[id].type \in {"text", "richText"}
    /\ copies < MaxCopies
    /\ isPaused' = TRUE
    /\ copies' = copies + 1
    /\ clipboard' =
           IF rows[id].rich_text # NULL /\ copyWithFormatting
           THEN [EmptyClipboard EXCEPT !.formats = {"text/html"},
                                       !.html = rows[id].rich_text,
                                       !.writer = "app"]
           ELSE [EmptyClipboard EXCEPT !.formats = {"text/plain"},
                                       !.text = rows[id].plain_text,
                                       !.writer = "app"]
    /\ rows' = update(rows, id, [timestamp |-> now])
    /\ last' = Call("copyToClipboard", id, 1, rows')
    /\ e2e' = 0 - 1
    /\ deliveries' = 0
    /\ UNCHANGED <<nextId, now, prefVars, preferences, notice, schema, lastHash,
                   isMonitoring, timerVars, importing, blobVars, inflight, listVars>>

\* one of the armed 100 ms timers of the copy handlers fires:
\* ClipboardMonitor.resumeMonitoring
ResumeTimer ==
    /\ ~importing
    /\ copies > 0
    /\ copies' = copies - 1
    /\ isPaused' = FALSE
    /\ UNCHANGED <<storeVars, now, prefVars, preferences, notice, schema, clipboard,
                   lastHash, isMonitoring, timerVars, importing, blobVars, sampleVars>>

\* the steps of a sample that may throw
SampleFaults == {"read", "hash", "create", "callback"}

\* a sample whose exception leaves checkClipboard and ends the timer
sampleThrows_Uncaught(dateNow, fault) ==
    /\ last' = Call("checkClipboard/" \o fault, NoId, Threw, rows)
    /\ interval' = FALSE
    /\ timers' = 0
    /\ UNCHANGED <<rows, nextId, e2e, lastHash, isMonitoring, isPaused,
                   sampleVars>>

\* ClipboardMonitor.checkClipboard run at time dateNow with an exception in
\* the step fault: the clipboard read throws inside captureClipboardContent,
\* whose catch returns null; the hashing throws into the catch of
\* checkClipboard; the item construction throws inside createClipboardItem,
\* whose catch returns null after lastHash was set; the change callback
\* throws into the catch of checkClipboard
sampleThrows(dateNow, fault) ==
    LET content == captureClipboardContent(clipboard)
        currentHash == generateContentHash(content)
        reached == fault \in {"create", "callback"}
                   /\ ~content.isNull /\ currentHash # lastHash
    IN /\ fault \in {"hash", "create", "callback"} => ~content.isNull
       /\ fault \in {"create", "callback"} => currentHash # lastHash
       /\ lastHash' = IF reached THEN currentHash ELSE lastHash
       /\ last' = Call("checkClipboard/" \o fault, NoId, Threw, rows)
       /\ UNCHANGED <<rows, nextId, e2e, isMonitoring, isPaused, timerVars,
                      sampleVars>>

\* the setInterval callback of startMonitoring when its sample throws
FaultyTick(fault) ==
    /\ ~importing
    /\ timers > 0
    /\ ~isPaused
    /\ (now % MsPerDay) \div pollInterval < MaxTicks
    /\ now' = now + pollInterval
    /\ sampleThrows(now', fault)
    /\ UNCHANGED <<prefVars, appVars, clipboard, importing, blobVars>>

MonitorClipboards == {PlainHello, PlainWorld, RichHello}

InitMonitor == Init /\ maxItems = MaxLimit /\ retentionDays = 0

NextMonitor ==
    \/ \E cb \in MonitorClipboards : OSCopy(cb)
    \/ StartMonitoring
    \/ StopMonitoring
    \/ PauseMonitoring
    \/ ResumeMonitoring
    \/ ResumeTimer
    \/ IntervalTick
    \/ \E fault \in SampleFaults : FaultyTick(fault)
    \/ \E id \in 1..MaxIds : \E copyWithFormatting \in BOOLEAN :
           CopyToClipboardText(id, copyWithFormatting)

\* the Poller on text clipboards
SpecMonitor == InitMonitor /\ [][NextMonitor]_vars

NextFiles ==
    \/ \E cb \in FileClipboards : OSCopy(cb)
    \/ StartMonitoring
    \/ IntervalTick
    \/ \E x \in fanout : \E compressOk, thumbOk \in BOOLEAN :
           FileImageSettles(x, compressOk, thumbOk)

\* the Poller on file-list clipboards
SpecFiles == InitMonitor /\ [][NextFiles]_vars

\* the clipboard-updated notifications PasteBroApp.handleClipboardChange
\* sends once the addItem recorded in call has resolved: one carrying the
\* id of the captured item when addItem returned an id, none when it
\* returned null or rejected (the main window exists)
clipboardUpdated(call) ==
    IF call.op = "addItem" /\ call.ret # Threw /\ call.ret # NoId
    THEN {call.id} ELSE {}

(***************************************************************************)
(* The Preferences Manager and the Permission Manager at work.             *)
(***************************************************************************)
\* PreferencesManager.update called with updates
PreferencesUpdate(updates, saveOk) ==
    /\ ~importing
    /\ LET out == prefsUpdate(preferences, updates, saveOk)
       IN /\ preferences' = [memory |-> out.memory, file |-> out.file]
          /\ last' = [Call("preferences.update", NoId, Flag(out.ret), rows)
                         EXCEPT !.changed = out.memory # preferences.memory]
    /\ e2e' = 0 - 1
    /\ UNCHANGED <<rows, nextId, now, prefVars, clipboard, pollerVars, importing,
                   blobVars, sampleVars, notice, schema, copies>>

\* the application starts: the PreferencesManager constructor loads the
\* file, and PermissionManager.checkAndNotify shows the notification two
\* seconds later when it should
AppStart(hasPermission) ==
    /\ ~importing
    /\ preferences' = [preferences EXCEPT !.memory = load(preferences.file)]
    /\ notice' = [notice EXCEPT
                     !.showing = shouldShowPermissionNotification(
                                     preferences'.memory, hasPermission)]
    /\ last' = Call("checkAndNotify", NoId, Flag(notice'.showing), rows)
    /\ e2e' = 0 - 1
    /\ UNCHANGED <<rows, nextId, now, prefVars, clipboard, pollerVars, importing,
                   blobVars, sampleVars, schema, copies>>

\* the user presses "Don't Show Again": the action handler of
\* showPermissionNotification
DontShowAgain(saveOk) ==
    /\ ~importing
    /\ notice.showing
    /\ LET out == prefsUpdate(preferences,
                              [fullDiskAccessNotificationDismissed |-> TRUE],
                              saveOk)
       IN /\ preferences' = [memory |-> out.memory, file |-> out.file]
          /\ last' = Call("dontShowAgain", NoId, Flag(out.ret), rows)
    /\ notice' = [notice EXCEPT !.showing = FALSE, !.dismissed = TRUE]
    /\ e2e' = 0 - 1
    /\ UNCHANGED <<rows, nextId, now, prefVars, clipboard, pollerVars, importing,
                   blobVars, sampleVars, schema, copies>>

NextPrefs ==
    \/ \E updates \in PreferenceUpdates : \E saveOk \in BOOLEAN :
           PreferencesUpdate(updates, saveOk)
    \/ \E hasPermission \in BOOLEAN : AppStart(hasPermission)
    \/ \E saveOk \in BOOLEAN : DontShowAgain(saveOk)

\* the Preferences Manager and the Permission Manager
SpecPrefs == Init /\ [][NextPrefs]_vars

(***************************************************************************)
(* Opening a store file that an earlier release may have written.          *)
(***************************************************************************)
SchemaTexts == {"Hello", "World"}

\* DatabaseManager.init on the store file
DatabaseInit ==
    /\ ~schema.open
    /\ schema' = init(schema)
    /\ last' = Call("db.init", NoId, 1, rows)
    /\ e2e' = 0 - 1
    /\ UNCHANGED <<rows, nextId, now, prefVars, clipboard, pollerVars, importing,
                   blobVars, sampleVars, preferences, notice, copies>>

\* DatabaseManager.insert of a new text item into the open store: the
\* statement names every current column and throws when one is missing
StoreInsert(text) ==
    /\ schema.open
    /\ nextId <= MaxRows
    /\ LET item == toDatabase(fromText(text, NULL, nextId, now))
       IN IF insertPrepares(schema) /\ ~insertThrows(rows, item)
          THEN /\ rows' = insert(rows, item)
               /\ last' = Call("insert", item.id, 1, rows')
          ELSE /\ rows' = rows
               /\ last' = Call("insert", item.id, Threw, rows)
    /\ nextId' = nextId + 1
    /\ e2e' = 0 - 1
    /\ UNCHANGED <<now, prefVars, clipboard, pollerVars, importing, blobVars,
                   sampleVars, appVars>>

\* DatabaseManager.close when the application quits
DatabaseClose ==
    /\ schema.open
    /\ schema' = [schema EXCEPT !.open = FALSE]
    /\ last' = Call("db.close", NoId, 1, rows)
    /\ e2e' = 0 - 1
    /\ UNCHANGED <<rows, nextId, now, prefVars, clipboard, pollerVars, importing,
                   blobVars, sampleVars, preferences, notice, copies>>

\* a store file found at startup, with the rows it holds
InitSchema ==
    /\ schema \in StoreFiles
    /\ \E k \in 0..MaxIds :
          /\ rows = IF schema.exists THEN StoredRows(k, 1, {}, {}) ELSE EmptyDb
          /\ nextId = IF schema.exists THEN k + 1 ELSE 1
    /\ now = 2 * MsPerDay
    /\ maxItems = MaxLimit
    /\ retentionDays = 0
    /\ clipboard = EmptyClipboard
    /\ lastHash = NULL
    /\ isMonitoring = FALSE
    /\ isPaused = FALSE
    /\ importing = FALSE
    /\ last = NoCall
    /\ e2e = 0 - 1
    /\ files = {}
    /\ fsCalls = {}
    /\ inflight = {}
    /\ deliveries = 0
    /\ interval = FALSE
    /\ timers = 0
    /\ fanout = {}
    /\ delivered = NoFanOut
    /\ preferences = [memory |-> defaults, file |-> NoPrefs]
    /\ notice = [showing |-> FALSE, dismissed |-> FALSE]
    /\ copies = 0

NextSchema ==
    \/ DatabaseInit
    \/ \E text \in SchemaTexts : StoreInsert(text)
    \/ DatabaseClose

\* the Store opened on the files of earlier releases
SpecSchema == InitSchema /\ [][NextSchema]_vars

(***************************************************************************)
(* The two migration passes next to the poller.  The 2-second timer keeps  *)
(* firing and the startup pass runs its loop to the end, so a turn of      *)
(* either pass that stays possible is eventually taken; the fairness is on *)
(* turns whose saveImage succeeds.                                         *)
(***************************************************************************)
StartupPasses == {"startup", "background"}

InitMigrate == InitImage /\ maxItems = MaxLimit

NextMigrate ==
    \/ \E cb \in ImageClipboards : OSCopy(cb)
    \/ StartMonitoring
    \/ IntervalTick
    \/ \E e \in inflight : \E compressOk, thumbOk \in BOOLEAN :
          SaveImageSettles(e, compressOk, thumbOk)
    \/ \E pass \in StartupPasses, id \in 1..MaxIds :
          \E compressOk, thumbOk \in BOOLEAN :
             Migrate(pass, id, compressOk, thumbOk)

\* the migration passes on a store that may hold an inline image
SpecMigrate ==
    /\ InitMigrate
    /\ [][NextMigrate]_vars
    /\ \A pass \in StartupPasses :
          WF_vars(\E id \in 1..MaxIds : Migrate(pass, id, TRUE, TRUE))

(***************************************************************************)
(* The poller on a clipboard that holds an image at one time and a text at *)
(* another: the image sample waits for saveImage while later ticks run.    *)
(***************************************************************************)
OrderClipboards == {ImageA, PlainHello, PlainWorld}

NextOrder ==
    \/ \E cb \in OrderClipboards : OSCopy(cb)
    \/ StartMonitoring
    \/ IntervalTick
    \/ \E e \in inflight : \E compressOk, thumbOk \in BOOLEAN :
          SaveImageSettles(e, compressOk, thumbOk)

\* the Poller on images and texts
SpecOrder == InitMonitor /\ [][NextOrder]_vars

(***************************************************************************)
(* Vocabulary of the properties.                                           *)
(***************************************************************************)
Live(db) == {i \in DOMAIN db : db[i].is_deleted = 0}
Trashed(db) == {i \in DOMAIN db : db[i].is_deleted = 1}
LiveWithHash(db, h) == {i \in Live(db) : db[i].content_hash = h}
TrashedWithHash(db, h) == {i \in Trashed(db) : db[i].content_hash = h}
LiveUnpinned(db) == {i \in Live(db) : db[i].is_pinned = 0}
Expired(db, days, t) ==
    {i \in LiveUnpinned(db) : db[i].timestamp < t - days * MsPerDay}

\* the item the import loop hands to addItem for itemData
Imported(itemData) == fromDatabase(itemData, nextId, now)

\* the poller's sample of the clipboard reaches the change callback
Sampled == captureClipboardContent(clipboard)
Delivers ==
    /\ ~Sampled.isNull
    /\ generateContentHash(Sampled) # lastHash
    /\ Sampled.text # ""

\* a step on which the poller samples the clipboard
PollStep == IntervalTick \/ (StartMonitoring /\ ~isMonitoring)

(***************************************************************************)
(* C1.  In every reachable state at most one row with isDeleted = false    *)
(* exists for any contentHash.                                             *)
(***************************************************************************)
C1_OneLiveRowPerHash ==
    \A a, b \in Live(rows) :
        rows[a].content_hash = rows[b].content_hash => a = b

(***************************************************************************)
(* C2.  addItem of an item whose contentHash a live row already has        *)
(* inserts no row and returns the id of such a row; N >= 1 consecutive     *)
(* addItem calls with one contentHash, starting with no live row for it,   *)
(* leave exactly one live row with that hash.  As stated: every call made  *)
(* with no live row for the hash, for an item that is not marked deleted   *)
(* and has a new id, leaves exactly one.                                   *)
(***************************************************************************)
ImportStep(itemData) ==
    /\ last'.op = "addItem"
    /\ last'.id = Imported(itemData).id
    /\ ImportItem(itemData)

C2_DedupKeepsOne(itemData) ==
    /\ DOMAIN rows' = DOMAIN rows
    /\ Live(rows') = Live(rows)
    /\ last'.ret \in LiveWithHash(rows, Imported(itemData).contentHash)

C3_RecopyBumpsTimestamp ==
    [][PollStep /\ Delivers
        /\ LiveWithHash(rows, generateContentHash(Sampled)) # {} =>
            /\ last'.ret \in LiveWithHash(rows, generateContentHash(Sampled))
            /\ rows' = [rows EXCEPT ![last'.ret].timestamp = now']]_vars

(***************************************************************************)
(* C4.  From an empty history, the poller capturing "Hello", "World" and   *)
(* "Hello" again leaves exactly 2 live items, and the default history      *)
(* query returns "Hello" before "World".                                   *)
(***************************************************************************)
C4_HelloWorldHello ==
    e2e = 3 =>
        /\ Cardinality(Live(rows)) = 2
        /\ \A s \in getItems(rows) :
            [i \in 1..Len(s) |-> rows[s[i]].plain_text] = <<"Hello", "World">>

(***************************************************************************)
(* C5.  With the only row of hash H in the trash, addItem of an item with  *)
(* hash H inserts a new live row and leaves the trashed row unchanged.     *)
(***************************************************************************)
C5_Pre(itemData) ==
    LET h == Imported(itemData).contentHash
    IN /\ LiveWithHash(rows, h) = {}
       /\ TrashedWithHash(rows, h) # {}
       /\ ImportStep(itemData)

C5_TrashedUnchanged(itemData) ==
    \A t \in TrashedWithHash(rows, Imported(itemData).contentHash) :
        t \in DOMAIN rows' /\ rows'[t] = rows[t]

C5_RecaptureInserts ==
    [][\A itemData \in ImportItems :
        LET item == Imported(itemData)
        IN C5_Pre(itemData) /\ item.id \notin DOMAIN rows =>
            /\ \E n \in DOMAIN rows' \ DOMAIN rows :
                /\ rows'[n].content_hash = Imported(itemData).contentHash
                /\ rows'[n].is_deleted = 0
            /\ C5_TrashedUnchanged(itemData)]_vars

\* C5 as amended: for an item whose id is not in the store, addItem takes
\* the insert path (it returns the item's id) and leaves the trashed row
\* unchanged; the new live row is in the store unless the enforcement that
\* follows the insert evicted it, which it does not when the store is under
\* its limit and the item is inside the retention window.
C5_RecaptureTakesInsertPath ==
    [][\A itemData \in ImportItems :
        LET item == Imported(itemData)
        IN C5_Pre(itemData) /\ item.id \notin DOMAIN rows =>
            /\ last'.ret = item.id
            /\ C5_TrashedUnchanged(itemData)
            /\ DOMAIN rows' \subseteq DOMAIN rows \cup {item.id}
            /\ item.id \in DOMAIN rows' =>
                /\ rows'[item.id].content_hash = item.contentHash
                /\ rows'[item.id].is_deleted = 0
            /\ (/\ Cardinality(Live(rows)) < maxItems
                /\ (retentionDays = 0
                    \/ item.timestamp >= now - retentionDays * MsPerDay))
               => item.id \in DOMAIN rows']_vars

\* a new live row stands beside the trashed row of the same hash
C5_Witness ==
    /\ last.op = "addItem"
    /\ last.ret = last.id
    /\ last.id \in Live(rows)
    /\ TrashedWithHash(rows, rows[last.id].content_hash) # {}

(***************************************************************************)
(* C6.  With maxHistoryItems = N and N + 5 live rows, none pinned, of      *)
(* strictly increasing timestamps inside the retention window, after       *)
(* enforceStorageLimits exactly N live rows remain and the rows removed    *)
(* are the 5 with the smallest timestamps.                                 *)
(***************************************************************************)
EnforceStep == last'.op \in {"enforceStorageLimits", "updatePreferences"}

C6_Pre ==
    /\ Cardinality(Live(rows)) = maxItems' + 5
    /\ LiveUnpinned(rows) = Live(rows)
    /\ \A a, b \in Live(rows) : rows[a].timestamp = rows[b].timestamp => a = b
    /\ \/ retentionDays' = 0
       \/ \A i \in Live(rows) :
            rows[i].timestamp >= now - retentionDays' * MsPerDay

C6_FiveOldest ==
    {i \in Live(rows) :
        Cardinality({j \in Live(rows) : rows[j].timestamp < rows[i].timestamp}) < 5}

C6_EvictsFiveOldest ==
    [][EnforceStep /\ C6_Pre =>
        /\ Cardinality(Live(rows')) = maxItems'
        /\ DOMAIN rows \ DOMAIN rows' = C6_FiveOldest
        /\ \A i \in DOMAIN rows' : i \in DOMAIN rows /\ rows'[i] = rows[i]]_vars

\* an enforcement that removed 5 rows and left maxItems live rows, none pinned
C6_Witness ==
    /\ last.op = "enforceStorageLimits"
    /\ Cardinality(last.removed) = 5
    /\ Cardinality(Live(rows)) = maxItems
    /\ LiveUnpinned(rows) = Live(rows)
    /\ \A r \in last.removed : \A i \in Live(rows) : r < i

(***************************************************************************)
(* C7.  No run of enforceStorageLimits and no clearAllHistory removes a    *)
(* pinned row: every row pinned before such a call is in the store,        *)
(* unchanged, after it.                                                    *)
(***************************************************************************)
C7_PinnedSurvive ==
    [][EnforceStep \/ last'.op = "clearAllHistory" =>
        \A i \in DOMAIN rows :
            rows[i].is_pinned = 1 => i \in DOMAIN rows' /\ rows'[i] = rows[i]]_vars

\* an enforcement removed rows newer than a live pinned row it left
C7_Witness ==
    /\ last.op = "enforceStorageLimits"
    /\ \E p \in Live(rows) :
        /\ rows[p].is_pinned = 1
        /\ \E r \in last.removed : p < r

C9_Ops ==
    {"addItem", "import", "restoreFromTrash", "unpinItem", "updatePreferences"}

C9_BoundedAfterEveryOp ==
    last.op \in C9_Ops =>
        \/ Cardinality(Live(rows)) <= maxItems
        \/ LiveUnpinned(rows) = {}

(***************************************************************************)
(* C10.  moveToTrash(id) sets the row's isDeleted to true and the row is   *)
(* absent from the default getItems results; restoreFromTrash(id) sets it  *)
(* to false and the row is in the results again with its id, timestamp,    *)
(* contentHash, isPinned and payload as they were.                         *)
(***************************************************************************)
C10_Listed(db, id) == \A s \in getItems(db) : \E i \in 1..Len(s) : s[i] = id

C10_Unlisted(db, id) == \A s \in getItems(db) : \A i \in 1..Len(s) : s[i] # id

C10_TrashRoundTrip ==
    [][\A id \in DOMAIN rows :
        /\ last'.op = "moveToTrash" /\ last'.id = id =>
            /\ rows' = [rows EXCEPT ![id].is_deleted = 1]
            /\ C10_Unlisted(rows', id)
        /\ last'.op = "restoreFromTrash" /\ last'.id = id =>
            /\ rows' = [rows EXCEPT ![id].is_deleted = 0]
            /\ C10_Listed(rows', id)]_vars

\* a trashed row was restored and is listed next to another live row
C10_Witness ==
    /\ last.op = "restoreFromTrash"
    /\ last.changed
    /\ last.id \in Live(rows)
    /\ Cardinality(Live(rows)) = 2
    /\ C10_Listed(rows, last.id)

(***************************************************************************)
(* C11.  emptyTrash permanently removes every row with isDeleted = true    *)
(* and no row with isDeleted = false, returns the number of rows removed,  *)
(* and afterwards getItemById returns null for each removed id.            *)
(***************************************************************************)
C11_EmptyTrashRemovesTrash ==
    [][EmptyTrash =>
        /\ DOMAIN rows \ DOMAIN rows' = Trashed(rows)
        /\ \A i \in Live(rows) : i \in DOMAIN rows' /\ rows'[i] = rows[i]
        /\ DOMAIN rows' \subseteq DOMAIN rows
        /\ last'.ret = Cardinality(Trashed(rows))
        /\ \A i \in Trashed(rows) : getItemById(rows', i) = NullItem]_vars

\* emptyTrash removed a trashed row and left a live one
C11_Witness ==
    /\ last.op = "emptyTrash"
    /\ last.ret = 1
    /\ Cardinality(last.removed) = 1
    /\ Live(rows) # {}

(***************************************************************************)
(* C12.  clearAllHistory permanently removes exactly the rows with         *)
(* isPinned = false and isDeleted = false; pinned rows and trashed rows    *)
(* are unchanged, and the returned count is the number of rows removed.    *)
(***************************************************************************)
C12_ClearAllRemovesLiveUnpinned ==
    [][ClearAllHistory =>
        /\ DOMAIN rows \ DOMAIN rows' = LiveUnpinned(rows)
        /\ DOMAIN rows' \subseteq DOMAIN rows
        /\ \A i \in DOMAIN rows \ LiveUnpinned(rows) :
            i \in DOMAIN rows' /\ rows'[i] = rows[i]
        /\ last'.ret = Cardinality(LiveUnpinned(rows))]_vars

\* clearAllHistory removed rows and left a pinned live row and a trashed row
C12_Witness ==
    /\ last.op = "clearAllHistory"
    /\ last.ret >= 2
    /\ Cardinality(last.removed) = last.ret
    /\ \E i \in Live(rows) : rows[i].is_pinned = 1
    /\ Trashed(rows) # {}

\* the mutable set as the specification lists it: pinned, deleted, plain
\* text, rich text, color, file paths, image path, thumbnail path
C15_MutableFields ==
    {"is_pinned", "is_deleted", "plain_text", "rich_text", "color_value",
     "file_paths", "image_path", "thumbnail_path"}

C15_Supplied(updates, c) ==
    LET k == CHOOSE k \in DOMAIN updates : camelToSnake(k) = c
    IN updateValue(k, updates[k])

\* C15: update(id, fields) writes exactly the supplied fields of the
\* mutable set, leaves every other column as it was, and returns true
\* exactly when a row was affected
C15_UpdateWritesMutableFields ==
    [][\A id \in DOMAIN rows : \A updates \in UpdateMaps(id) :
          DbUpdate(id, updates) =>
              LET written == {camelToSnake(k) : k \in DOMAIN updates}
                                 \cap C15_MutableFields \cap DOMAIN rows[id]
              IN /\ \A c \in DOMAIN rows[id] :
                       rows'[id][c] = IF c \in written
                                      THEN C15_Supplied(updates, c)
                                      ELSE rows[id][c]
                 /\ last'.ret = Flag(written # {})]_vars

(***************************************************************************)
(* C16.  Every Blob Store operation that builds a file path from an id     *)
(* (save with a caller-supplied id, delete, read, readThumbnail,           *)
(* imageExists) fails for an id containing "..", a slash or a backslash    *)
(* before any file is read, written or removed.                            *)
(***************************************************************************)
C16_Traversal(id) ==
    \/ \E i \in 1..(Len(id) - 1) : id[i] = "." /\ id[i + 1] = "."
    \/ \E i \in 1..Len(id) : id[i] \in {"/", "\\"}

C16_Operation(id) ==
    \/ \E compressOk, thumbOk \in BOOLEAN : SaveImage(id, compressOk, thumbOk)
    \/ DeleteImage(id)
    \/ ReadImage(id)
    \/ ReadThumbnail(id)
    \/ ImageExists(id)

C16_TraversalRejected ==
    [][\A id \in BlobIds :
        C16_Traversal(id) /\ C16_Operation(id) =>
            /\ last'.ret = Threw
            /\ fsCalls' = {}
            /\ files' = files]_vars

(***************************************************************************)
(* C17.  After save(bytes, id) succeeds and delete(id) returns, neither    *)
(* the full-image file nor the thumbnail file that save wrote for id       *)
(* exists in the Blob Store directories.                                   *)
(***************************************************************************)
C17_Saved(id) == saveImage({}, id, id, TRUE, TRUE).files

C17_DeleteRemovesSaved ==
    [][\A id \in BlobIds \ {<<>>} :
        /\ C17_Saved(id) \subseteq files
        /\ DeleteImage(id)
        /\ last'.ret # Threw
        => C17_Saved(id) \cap files' = {}]_vars
\* C13: whenever an image-backed row is permanently removed (deleteItems,
\* emptyTrash, clearAllHistory, count or retention eviction), the files the
\* Blob Store holds under its id are deleted with it
C13_BlobsRemovedWithRow ==
    [][\A i \in DOMAIN rows \ DOMAIN rows' :
          rows[i].image_path # NoPath =>
              \A f \in files' : f.name # Uuid(i)]_vars

\* C14: in every reachable state each image row has inline image data or
\* an image path, whatever migration pass has run on it
C14_ImageRowsKeepContent ==
    \A i \in DOMAIN rows :
        rows[i].type = "image" =>
            rows[i].image_data # NoImage \/ rows[i].image_path # NoPath

\* C18: when the thumbnail of a captured image cannot be written, the
\* capture still hands an image item to the change callback, with its
\* image path set and no thumbnail
C18_ThumbnailFailureStillDelivers ==
    [][\A e \in inflight :
          SaveImageSettles(e, TRUE, FALSE) =>
              /\ last'.op = "addItem"
              /\ last'.id = e.id
              /\ e.id \in DOMAIN rows' =>
                    /\ rows'[e.id].image_path # NoPath
                    /\ rows'[e.id].thumbnail_path = NoPath]_vars

\* C19: a tick whose sample hashes to lastHash delivers nothing and leaves
\* the poller and the store as they were, so content that stays on the
\* clipboard is handed to the change callback at most once
C19_UnchangedSampleIsSilent ==
    /\ [](deliveries <= 1)
    /\ [][(IntervalTick /\ ~Sampled.isNull
             /\ generateContentHash(Sampled) = lastHash)
          => UNCHANGED <<rows, nextId, last, lastHash, isMonitoring, isPaused,
                         timerVars, inflight, deliveries>>]_vars

\* Hello was delivered when monitoring started and stayed on the clipboard
\* for MaxTicks ticks
C19_Witness ==
    /\ isMonitoring /\ ~isPaused
    /\ ~Sampled.isNull
    /\ lastHash = generateContentHash(Sampled)
    /\ deliveries = 1
    /\ last.op = "addItem"
    /\ nextId = 2
    /\ DOMAIN rows = {1}
    /\ rows[1].timestamp = MsPerDay
    /\ now = MsPerDay + MaxTicks * pollInterval

\* C20: at most one execution of checkClipboard is in progress at any time,
\* also while a sample awaits an image save longer than the poll interval
C20_OneSampleInProgress == Cardinality(inflight) <= 1
\* the payload of an item
C27_Payload(item) ==
    <<item.plainText, item.richText, item.imageData, item.filePaths,
      item.colorValue>>

\* C27: two items of the same type and payload have the same contentHash
\* whichever way they are built: by a factory, by the constructor without a
\* hash, or by fromDatabase of a record without a hash
C27_HashOfTypeAndPayload ==
    last.op = "build" =>
        (last.a.type = last.b.type /\ C27_Payload(last.a) = C27_Payload(last.b)
            => last.a.contentHash = last.b.contentHash)

\* C28: two text items with different plainText have different contentHash
\* and are never collapsed into one row by dedup, also when they are built
\* without an explicit hash, as on import: an imported text never resolves
\* to a row that holds another text
C28_DifferentTextsKeptApart ==
    [][\A itemData \in HandWrittenItems :
          ImportItem(itemData) =>
              (last'.ret \in DOMAIN rows =>
                  rows[last'.ret].plain_text = itemData.plainText)]_vars

\* the fields the round trip is to preserve
C29_Fields ==
    {"id", "type", "timestamp", "isPinned", "isDeleted", "contentHash",
     "plainText", "richText", "imagePath", "thumbnailPath", "filePaths",
     "colorValue", "fileSize", "fileCount", "fileTypes", "isAllImages"}

\* C29: fromDatabase(toDatabase(item)) has the id, type, timestamp, flags,
\* contentHash and payload fields of item, for every type of item
C29_RoundTrip ==
    last.op = "roundTrip" =>
        \A f \in C29_Fields : last.b[f] = last.a[f]

\* a group of image files and a captured image went through the round trip
C29_Witness ==
    /\ last.op = "roundTrip"
    /\ \/ last.a.type = "multi-file" /\ last.a.isAllImages
             /\ last.b.fileTypes = <<"image", "image">>
       \/ last.a.type = "image" /\ last.b.thumbnailPath # NoPath
             /\ last.a.isPinned
\* C30: enforceStorageLimits never throws, and a store failure inside the
\* count pass does not keep the retention pass of the same call from
\* running, nor a failure inside the retention pass the count pass
C30_PassesIndependent ==
    [][\A fault \in StoreFaults :
          EnforceStorageLimitsFault(fault) =>
              /\ last'.ret # Threw
              /\ fault = "count" =>
                    rows' \in retentionPass(rows, retentionDays, now)
              /\ fault = "retention" => rows' \in countPass(rows, maxItems)]_vars

\* C21: content that the copy-to-clipboard handler wrote is never handed
\* to the change callback while it stays on the clipboard: no tick delivers
\* it, neither during the pause nor after resumeMonitoring
C21_OwnWriteNeverDelivered ==
    [][(IntervalTick /\ clipboard.writer = "app")
          => deliveries' = deliveries /\ rows' = rows]_vars

\* the sample of a step is one that starts, in a tick or in startMonitoring
SampleStarts ==
    \/ IntervalTick /\ ~isPaused
    \/ \E fault \in SampleFaults : FaultyTick(fault)
    \/ StartMonitoring /\ ~isMonitoring

\* C22: at most one periodic timer exists, and one exists exactly when
\* isMonitoring is set; startMonitoring while monitoring changes nothing;
\* a sample starts only while monitoring, so none starts between
\* stopMonitoring and the next startMonitoring
C22_OneTimerIffMonitoring ==
    /\ [](timers <= 1 /\ (timers = 1 <=> isMonitoring)
            /\ (interval <=> isMonitoring))
    /\ [][(StartMonitoring /\ isMonitoring) => UNCHANGED vars]_vars
    /\ [][SampleStarts => isMonitoring' /\ timers' = 1]_vars
    /\ [][StopMonitoring => ~isMonitoring' /\ timers' = 0]_vars

\* monitoring was started, sampled the clipboard, was paused and stopped
C22_Witness ==
    /\ ~isMonitoring /\ ~isPaused
    /\ timers = 0 /\ ~interval
    /\ lastHash # NULL
    /\ last.op = "copyToClipboard"

\* the calls recorded by samples that threw
FaultCalls == {"checkClipboard/" \o fault : fault \in SampleFaults}

\* C23: a sample that throws (in the clipboard read, the hashing, the item
\* construction, the image save or the change callback) leaves the timer
\* scheduled and the monitor's flags as they were, and the tick after it
\* samples the clipboard again
C23_FailedSampleKeepsPolling ==
    /\ [][(\E fault \in SampleFaults : FaultyTick(fault))
            => UNCHANGED <<isMonitoring, isPaused, timerVars>>]_vars
    /\ [][(last.op \in FaultCalls /\ IntervalTick /\ ~isPaused
                /\ ~Sampled.isNull)
            => lastHash' = generateContentHash(Sampled)]_vars
    /\ [](last.op \in FaultCalls => last.ret = Threw /\ ~last.changed)

\* a sample threw in the change callback while monitoring, and the timer
\* is scheduled
C23_Witness ==
    /\ last.op = "checkClipboard/callback"
    /\ isMonitoring /\ timers = 1
    /\ lastHash = generateContentHash(Sampled)
    /\ clipboard = PlainWorld

\* C24: a sampled file list of k files yields k items in list order, an
\* Image item with an image path for each file with an image extension
\* and a File item holding the one path for each other file
C24_OneItemPerFile ==
    /\ Len(delivered.items) = Len(delivered.files)
    /\ \A i \in DOMAIN delivered.files :
          IF isImageFile(delivered.files[i])
          THEN /\ delivered.items[i].type = "image"
               /\ delivered.items[i].imagePath # NoPath
          ELSE /\ delivered.items[i].type = "file"
               /\ delivered.items[i].filePaths = <<delivered.files[i]>>

\* C25: captured texts with the same plain text get the same contentHash
\* whatever their markup, so no two live rows hold the same plain text
C25_MarkupDoesNotSplit ==
    \A i, j \in DOMAIN rows :
        (/\ rows[i].is_deleted = 0 /\ rows[j].is_deleted = 0
         /\ rows[i].plain_text # NULL
         /\ rows[i].plain_text = rows[j].plain_text)
            => rows[i].content_hash = rows[j].content_hash /\ i = j

\* C26: a tick that finds a file list other than the one sampled last
\* detects the change and samples the new list
C26_ListChangeDetected ==
    [][(/\ IntervalTick /\ ~isPaused
        /\ fanout = {}
        /\ delivered.files # <<>>
        /\ Sampled.files # NoList
        /\ Sampled.files # delivered.files)
          => \/ delivered'.files = Sampled.files
             \/ \E x \in fanout' : x.files = Sampled.files]_vars

\* C31: a clipboard-updated notification carries the id of a row that the
\* capture inserted and that is in the store; a capture deduplicated
\* against an existing row sends none with an id absent from the store
C31_NotificationNamesStoredRow ==
    \A id \in clipboardUpdated(last) : id \in DOMAIN rows /\ last.changed

\* C32: an update that names a key that is no preference leaves every
\* preference as it was and returns false.
C32_UnknownKeyRejected ==
    [][\A updates \in PreferenceUpdates : \A saveOk \in BOOLEAN :
          (PreferencesUpdate(updates, saveOk)
             /\ DOMAIN updates \ DOMAIN defaults # {})
          => /\ preferences'.memory = preferences.memory
             /\ load(preferences'.file) = load(preferences.file)
             /\ last'.ret = 0]_vars

\* C40: once the user has pressed "Don't Show Again", no later check shows
\* the Full Disk Access notification.
C40_DismissedStaysDismissed ==
    [][(notice.dismissed /\ \E hasPermission \in BOOLEAN : AppStart(hasPermission))
          => ~notice'.showing]_vars

\* a step changes at most column of the row id in the store, and nothing
\* of the files, the clipboard, the limits or the preferences
OnlyColumn(id, column) ==
    /\ DOMAIN rows' = DOMAIN rows
    /\ \A i \in DOMAIN rows : \A c \in DOMAIN rows[i] :
           (i # id \/ c # column) => rows'[i][c] = rows[i][c]
    /\ UNCHANGED <<nextId, now, prefVars, appVars, clipboard, pollerVars, blobVars>>

\* C33: pinItem, unpinItem and togglePin change only is_pinned of the row
\* they address, moveToTrash and restoreFromTrash only its is_deleted;
\* every other column, every other row and all other state stay as they were.
C33_FlagOperationsFrame ==
    [][LET id == last'.id
       IN /\ (\/ last'.op = "pinItem" /\ PinItem(id)
              \/ last'.op = "unpinItem" /\ UnpinItem(id)
              \/ last'.op = "togglePin" /\ TogglePin(id))
                => OnlyColumn(id, "is_pinned")
          /\ (\/ last'.op = "moveToTrash" /\ MoveToTrash(id)
              \/ last'.op = "restoreFromTrash" /\ RestoreFromTrash(id))
                => OnlyColumn(id, "is_deleted")]_vars

\* a flag operation has changed one of two rows, the other being in the trash
C33_Witness ==
    /\ last.op \in {"pinItem", "togglePin", "restoreFromTrash"}
    /\ last.ret = 1 /\ last.changed
    /\ Cardinality(DOMAIN rows) = 2
    /\ \E i \in DOMAIN rows : i # last.id /\ rows[i].is_deleted = 1

\* C34: copying a stored, live, non-pinned row to the clipboard sets its
\* timestamp to the current time, so that no other non-pinned row precedes
\* it in the next default history query.
C34_CopyMovesRowToFront ==
    [][\A id \in 1..MaxIds : \A copyWithFormatting \in BOOLEAN :
          (/\ last'.op = "copyToClipboard"
           /\ CopyToClipboardText(id, copyWithFormatting)
           /\ rows[id].is_pinned = 0 /\ rows[id].is_deleted = 0)
          => /\ rows'[id].timestamp = now
             /\ \A q \in getItems(rows') : \A i \in DOMAIN q :
                   rows'[q[i]].is_pinned = 0
                      => rows'[q[i]].timestamp <= rows'[id].timestamp]_vars

\* C35: init() on a store file in any schema state keeps its rows, leaves
\* the recorded version at the current version and every current column in
\* the table, and an insert into the opened store does not throw.
C35_InitBringsStoreUpToDate ==
    [][/\ DatabaseInit
          => /\ rows' = rows
             /\ schema'.version = currentVersion
             /\ AllColumns \subseteq schema'.columns
       /\ \A text \in SchemaTexts :
             (last'.op = "insert" /\ StoreInsert(text)) => last'.ret # Threw]_vars

\* the image row id holds inline data and no path
InlineOnly(id) == id \in blobItems(rows, "copy")

\* C36: every image row with inline data and no image path is eventually
\* migrated, so that it names its image file, whatever newer rows there
\* are; and a row a pass has migrated is not picked up by a pass again.
C36_InlineImagesGetMigrated ==
    /\ \A id \in 1..MaxLegacy :
          InlineOnly(id) ~> (id \notin DOMAIN rows \/ rows[id].image_path # NoPath)
    /\ [][\A pass \in StartupPasses :
             (last'.op = "migrate" /\ last'.ret = 1
                /\ Migrate(pass, last'.id, TRUE, TRUE))
             => \A again \in StartupPasses : last'.id \notin blobItems(rows', again)]_vars

\* C37: while a copy handler is between its pauseMonitoring and its own
\* delayed resume, the poller is paused, also when two invocations
\* overlap: the resume of one leaves the poller paused while the timer of
\* another is pending.
C37_PausedWhileCopyPending ==
    [][(ResumeTimer /\ copies' > 0) => isPaused']_vars

\* C38: items reach the change callback in the order in which their
\* changes were detected: a row is inserted after every row detected
\* before it (ids are handed out at detection), and the timestamps of the
\* rows follow that order.
C38_DeliveredInDetectionOrder ==
    [][/\ \A id \in DOMAIN rows' \ DOMAIN rows : \A j \in DOMAIN rows : j < id
       /\ \A i, j \in DOMAIN rows' :
             i < j => rows'[i].timestamp <= rows'[j].timestamp]_vars

\* C39: lastHash is set when a change is detected, before the item is built;
\* when the build of the only change detected so far, an image, has failed
\* in saveImage, a later tick that samples an image again detects nothing
\* and delivers nothing.
C39_FailedBuildNotRetried ==
    /\ [][\A e \in inflight' \ inflight :
             lastHash' = e.hash /\ e.id \notin DOMAIN rows']_vars
    /\ [][(/\ IntervalTick /\ ~isPaused
           /\ last.op = "createClipboardItem" /\ last.ret = 0
           /\ nextId = 2 /\ inflight = {}
           /\ Sampled.image # NoImage)
          => UNCHANGED <<rows, nextId, inflight, deliveries, lastHash>>]_vars

\* the save of the image sampled at the start failed, the image stayed on
\* the clipboard and MaxTicks ticks have passed
C39_Witness ==
    /\ last.op = "createClipboardItem" /\ last.ret = 0
    /\ nextId = 2 /\ inflight = {} /\ rows = EmptyDb
    /\ clipboard = ImageA
    /\ lastHash = generateContentHash(Sampled)
    /\ isMonitoring /\ ~isPaused
    /\ now = MsPerDay + MaxTicks * pollInterval

====
